---- MODULE Spec2Model ----
(***************************************************************************)
(* Model of the matsuni bot: the scoring engine (bot/services/             *)
(* matsuni_calc.py), the spreadsheet store (bot/database/gsheets.py), the  *)
(* new-post, add-member and exclusion conversations (bot/main.py), the     *)
(* cached reads of the store (bot/database/cache.py), the identity         *)
(* matcher, the text of a photo and the batch of images                    *)
(* (bot/services/image_ocr.py).                                            *)
(*                                                                         *)
(* Dates are day numbers: day d stands for the canonical string that       *)
(* strftime('%Y-%m-%d') prints for it, so equality of day numbers is       *)
(* equality of those strings.  Day 0 stands for a text that validate_date  *)
(* refuses.  The time-of-day part of 'Время проверки' is never read by the *)
(* code modelled here (only .split()[0] is), and is left out of the rows.  *)
(***************************************************************************)
EXTENDS Integers, Sequences, FiniteSets, TLC

VARIABLES
    today,        \* the calendar day datetime.now() falls on
    exclusions,   \* sheet 'Исключения': set of rows
    exclCache,    \* TTL cache of get_exclusions, keyed by post name
    ledger,       \* sheet 'Активность': sequence of rows
    posts,        \* sheet 'Посты': sequence of rows
    conv,         \* per operator: state of the new-post conversation
    post_session, \* per operator: context.user_data['post_session'] (<<>> = absent)
    post_results, \* per operator: context.user_data['post_results'] (<<>> = absent)
    history,      \* ghost: one record per save_activity call, in order
    calcIn,       \* direct call of calculate_for_post: its arguments (<<>> = none)
    calcOut,      \* direct call of calculate_for_post: its return value
    matchIn,      \* direct call of find_usernames: its arguments (<<>> = none)
    matchOut,     \* direct call of find_usernames: its return value
    simIn,        \* call of _calculate_similarity: <<caller, first string,
                  \* second string>> (<<>> = none)
    simOut,       \* call of _calculate_similarity: its return value
    totals,       \* sheet 'Итоги': sequence of rows (<<>> = nothing in it)
    emptyRead,    \* what get_all_values() gives for a sheet with nothing in
                  \* it: "none" for [] and "row" for [[]], by gspread version
    totIn,        \* call of calculate_totals: <<entry point, start_date,
                  \* end_date>> (<<>> = none)
    totOut,       \* call of calculate_totals: <<outcome, report, activities>>
    totFirst,     \* ghost: <<totOut, totals>> after the first of two runs
    members_ws,   \* sheet 'Участники': sequence of rows
    clock,        \* the time of day datetime.now() shows, in seconds
    batchIn,      \* call of batch_process_images: <<images>> (<<>> = none)
    batchOut,     \* call of batch_process_images: its return value
    memCache,     \* TTL cache of get_members, keyed by the arguments of the call
    dialogs,      \* state of add_member_conv and of exclusion_conv for the
                  \* one user that talks to them
    user_data,    \* context.user_data of that user: the keys new_member,
                  \* exclusion_user and exclusion_post it holds
    update,       \* the text of the last message of that user (<<>> = none)
    imageIn,      \* a photo handled: <<text recognized in it>> (<<>> = none)
    imageOut      \* what _process_single_image returned for the photo

vars == <<today, exclusions, exclCache, ledger, posts, conv, post_session,
          post_results, history, calcIn, calcOut, matchIn, matchOut,
          simIn, simOut, totals, emptyRead, totIn, totOut, totFirst,
          members_ws, clock, batchIn, batchOut, memCache, dialogs,
          user_data, update, imageIn, imageOut>>

(***************************************************************************)
(* The fields of the records of the model (the keys of the dicts and the   *)
(* columns of the sheets).  Every record lists its fields in this order.   *)
(***************************************************************************)
FieldDoc ==
    [
      active           |-> "an exclusion row is marked active",
      activities       |-> "argument activities of calculate_for_post",
      activity_level   |-> "activity level of a member in a period report",
      add_member_conv  |-> "state of the add-member conversation",
      avg_matsuni      |-> "average points of a member per active day",
      check            |-> "date part of the check time of a ledger row",
      comments         |-> "members found in the comment screenshots of a batch",
      date             |-> "date of a post",
      days_active      |-> "dates on which a member has ledger rows",
      efficiency       |-> "share of the days of a period a member was active",
      errors           |-> "error texts of a batch",
      excluded_at      |-> "ghost: the exclusions sheet when the post was scored",
      exclusion_conv   |-> "state of the exclusion conversation",
      exclusion_post   |-> "key exclusion_post of user_data",
      exclusion_user   |-> "key exclusion_user of user_data",
      failure          |-> "what goes wrong in the unit of an image",
      finish           |-> "seconds from the submission of a unit to its end",
      first_row        |-> "ghost: index of the first ledger row of a save",
      found_comments   |-> "found_comments of a post session",
      found_likes      |-> "found_likes of a post session",
      found_usernames  |-> "ghost: the list find_usernames returned for a photo",
      has_comment      |-> "the member commented",
      has_like         |-> "the member liked",
      hhmmss           |-> "clock time in a post id",
      id               |-> "id of a post",
      is_comments      |-> "the text of a screenshot holds a comment marker",
      join_date        |-> "join date of a roster row",
      last_row         |-> "ghost: index of the last ledger row of a save",
      likes            |-> "members found in the like screenshots of a batch",
      matched          |-> "members find_usernames matched in a screenshot",
      matsuni          |-> "points awarded",
      members_list     |-> "argument members_list of find_usernames",
      members_to_check |-> "members_to_check of a post session",
      min_confidence   |-> "argument min_confidence of find_usernames",
      name             |-> "name of a post",
      new_member       |-> "key new_member of user_data",
      period           |-> "the two date texts of a totals period",
      post_data        |-> "argument post_data of calculate_for_post and save_activity",
      post_id          |-> "post id of a ledger row",
      post_name        |-> "post name of an exclusion row",
      rank             |-> "rank of a member in a totals report",
      results          |-> "list calculate_for_post returned",
      saved_on         |-> "ghost: day save_activity ran",
      scored_at        |-> "ghost: number of saved posts when the post was scored",
      scored_len       |-> "ghost: length of the ledger when the post was scored",
      status           |-> "status of a roster row",
      text             |-> "argument text of find_usernames",
      total_days       |-> "days of a totals period",
      total_matsuni    |-> "points of a member, or of a report",
      total_members    |-> "members of a totals report",
      username         |-> "username of a member" ]

(***************************************************************************)
(* Bounds of the model.                                                    *)
(***************************************************************************)
MaxDay == 2
MaxPosts == 2
MaxExcl == 1

Days == 1..MaxDay
Users == {"alice", "bob"}
PostNames == {"vibro"}
Wildcard == "all"
ExclNames == PostNames \cup {"art", Wildcard}

(***************************************************************************)
(* MATSUNI_RULES / MatsuniCalculator.rules defaults.                       *)
(***************************************************************************)
max_per_day == 2
like_only == 1
like_comment == 2

Min(a, b) == IF a < b THEN a ELSE b
Max(a, b) == IF a > b THEN a ELSE b

RECURSIVE SumMatsuni(_)
SumMatsuni(rows) ==
    IF rows = <<>> THEN 0 ELSE Head(rows).matsuni + SumMatsuni(Tail(rows))

(***************************************************************************)
(* Roster.  Sheet 'Участники' is fixed here; every member is active.  bob  *)
(* joined on day 1, so a post dated day 1 is checked for alice alone.      *)
(***************************************************************************)
Roster == << [join_date |-> 0, username |-> "alice"],
             [join_date |-> 1, username |-> "bob"] >>

\* the first row of sheet 'Итоги' as _init_worksheet_structure writes it;
\* none of its cells is a period
HeaderRow == << "header" >>

\* get_members_before_date(date): the members that joined before the date
get_members_before_date(date) ==
    LET sel == SelectSeq(Roster, LAMBDA m : m.join_date < date)
    IN  [i \in 1..Len(sel) |-> sel[i].username]

(***************************************************************************)
(* GoogleSheetsDB.get_exclusions, without and with its cache.              *)
(***************************************************************************)
NoEntry == <<>>

\* a row of sheet 'Исключения' (its reason and date columns are never read)
ExclusionRow(username, post_name, active) ==
    [active |-> active, post_name |-> post_name, username |-> username]

\* get_exclusions with the comparison of the post name inverted
ReadExclusionsOtherPosts(sheet, post_name) ==
    { row \in sheet :
        /\ row.active
        /\ ~(post_name # "" /\ row.post_name = post_name) }

\* the body of get_exclusions: the active rows, of the post when one is named
ReadExclusions(sheet, post_name) ==
    { row \in sheet :
        /\ row.active
        /\ ~(post_name # "" /\ row.post_name # post_name) }

\* @cachetools.cached: a hit returns the stored value, a miss computes it
get_exclusions(cache, sheet, post_name) ==
    IF cache[post_name] # NoEntry
    THEN cache[post_name][1]
    ELSE ReadExclusions(sheet, post_name)

CacheAfterGet(cache, sheet, post_name) ==
    [cache EXCEPT ![post_name] = <<get_exclusions(cache, sheet, post_name)>>]

\* a variant of clear_cache that leaves the entries where they are
clear_cache_none(cache) == cache

\* cache_manager.clear_cache(name) on the cache of that name
clear_cache(cache) == [n \in DOMAIN cache |-> NoEntry]

(***************************************************************************)
(* GoogleSheetsDB.get_members, without and with its cache.  The key of an  *)
(* entry is made of the arguments of the call: << >> for get_members(),    *)
(* << TRUE >> for get_members(True).                                       *)
(***************************************************************************)
Active == "active"

MemberKeys == { << >>, << TRUE >>, << FALSE >> }

\* the value of active_only in a call with these arguments
ActiveOnly(key) == IF key = << >> THEN TRUE ELSE key[1]

\* row.get('Статус', 'активен')
StatusOf(row) == IF "status" \in DOMAIN row THEN row.status ELSE Active

\* the body of get_members: the rows, the active ones when active_only
ReadMembers(sheet, active_only) ==
    LET sel == SelectSeq(sheet, LAMBDA row :
                   ~(active_only /\ StatusOf(row) # Active))
    IN  [ i \in DOMAIN sel |->
            [ join_date |-> sel[i].join_date,
              status    |-> StatusOf(sel[i]),
              username  |-> sel[i].username ] ]

\* @cachetools.cached: a hit returns the stored value, a miss computes it
get_members(cache, sheet, key) ==
    IF cache[key] # NoEntry
    THEN cache[key][1]
    ELSE ReadMembers(sheet, ActiveOnly(key))

MemCacheAfterGet(cache, sheet, key) ==
    [cache EXCEPT ![key] = << get_members(cache, sheet, key) >>]

(***************************************************************************)
(* MatsuniCalculator.                                                      *)
(***************************************************************************)
\* the rule table with the like tested before the comment
RawPointsLikeFirst(has_like, has_comment) ==
    IF has_like THEN like_only
    ELSE IF has_comment THEN like_comment
    ELSE 0

\* the rule table of calculate_for_post
RawPoints(has_like, has_comment) ==
    IF has_comment THEN like_comment
    ELSE IF has_like THEN like_only
    ELSE 0

\* the rows of the ledger that _check_daily_limit adds up
DailyRows(led, username, date) ==
    SelectSeq(led, LAMBDA row : row.username = username /\ row.check = date)

DailyTotal(led, username, date) == SumMatsuni(DailyRows(led, username, date))

\* _check_daily_limit without the max(0, ...)
CheckDailyLimitNoFloor(led, username, date, new_matsuni) ==
    Min(new_matsuni, max_per_day - DailyTotal(led, username, date))

\* _check_daily_limit
CheckDailyLimit(led, username, date, new_matsuni) ==
    LET remaining == max_per_day - DailyTotal(led, username, date)
    IN  Min(new_matsuni, Max(0, remaining))

\* one turn of the loop of calculate_for_post, for an activity that is kept
ScoreActivity(led, post_data, activity) ==
    LET raw == RawPoints(activity.has_like, activity.has_comment)
        daily_limit == CheckDailyLimit(led, activity.username, post_data.date, raw)
    IN  [ has_comment |-> activity.has_comment,
          has_like    |-> activity.has_like,
          matsuni     |-> IF daily_limit < raw THEN daily_limit ELSE raw,
          username    |-> activity.username ]

\* the loop of calculate_for_post leaving out the records that score nothing
RECURSIVE CalcLoopDropZero(_, _, _, _)
CalcLoopDropZero(led, excluded_users, post_data, activities) ==
    IF activities = <<>> THEN <<>>
    ELSE LET a == Head(activities)
             rest == CalcLoopDropZero(led, excluded_users, post_data,
                                      Tail(activities))
             scored == ScoreActivity(led, post_data, a)
         IN  IF a.username \in excluded_users \/ scored.matsuni = 0
             THEN rest
             ELSE <<scored>> \o rest

\* calculate_for_post, given the exclusions get_exclusions returned
RECURSIVE CalcLoop(_, _, _, _)
CalcLoop(led, excluded_users, post_data, activities) ==
    IF activities = <<>> THEN <<>>
    ELSE LET a == Head(activities)
             rest == CalcLoop(led, excluded_users, post_data, Tail(activities))
         IN  IF a.username \in excluded_users
             THEN rest
             ELSE <<ScoreActivity(led, post_data, a)>> \o rest

calculate_for_post(cache, sheet, led, post_data, activities) ==
    LET found == get_exclusions(cache, sheet, post_data.name)
        excluded_users == { ex.username : ex \in found }
    IN  CalcLoop(led, excluded_users, post_data, activities)

(***************************************************************************)
(* GoogleSheetsDB.save_activity.                                           *)
(***************************************************************************)
ActivityRows(post_data, activities, now) ==
    [ i \in 1..Len(activities) |->
        [ check       |-> now,
          has_comment |-> activities[i].has_comment,
          has_like    |-> activities[i].has_like,
          matsuni     |-> activities[i].matsuni,
          post_id     |-> post_data.id,
          username    |-> activities[i].username ] ]

PostRow(post_data) ==
    [ date |-> post_data.date, id |-> post_data.id, name |-> post_data.name ]

(***************************************************************************)
(* The new-post conversation of MatsuniBot.                                *)
(***************************************************************************)
\* the operators that talk to the bot; each has a user_data of its own
Operators == DOMAIN conv

InConversation == { op \in Operators : conv[op] # "END" }

EmptySession ==
    [ date |-> 0, found_comments |-> {}, found_likes |-> {},
      members_to_check |-> <<>>, name |-> "" ]

\* what _process_single_image returns for a screenshot: the matched members go
\* to 'comments' when the text holds a comment marker, else to 'likes'
Screenshots(members) ==
    { [is_comments |-> c, matched |-> m] :
        m \in SUBSET { members[i] : i \in 1..Len(members) }, c \in BOOLEAN }

ImageLikes(shot) == IF ~shot.is_comments THEN shot.matched ELSE {}
ImageComments(shot) == IF shot.is_comments THEN shot.matched ELSE {}

DbUnchanged == UNCHANGED <<exclusions, ledger, posts, history, memCache>>
DialogUnchanged ==
    UNCHANGED <<dialogs, user_data, update, imageIn, imageOut>>
TotalsUnchanged == UNCHANGED <<totals, emptyRead, totIn, totOut, totFirst>>
OthersUnchanged ==
    /\ UNCHANGED <<members_ws, clock, batchIn, batchOut>>
    /\ DialogUnchanged
CalcUnchanged ==
    /\ UNCHANGED <<calcIn, calcOut, matchIn, matchOut, simIn, simOut>>
    /\ TotalsUnchanged
    /\ OthersUnchanged

\* new_post_start (an entry point: taken only outside a conversation)
NewPostStart(op) ==
    /\ conv[op] = "END"
    /\ Len(posts) + Cardinality(InConversation) < MaxPosts
    /\ post_session' = [post_session EXCEPT ![op] = <<EmptySession>>]
    /\ conv' = [conv EXCEPT ![op] = "POST_NAME"]
    /\ DbUnchanged /\ CalcUnchanged
    /\ UNCHANGED <<today, exclCache, post_results>>

\* process_post_name
ProcessPostName(op, post_name) ==
    /\ conv[op] = "POST_NAME"
    /\ post_session' = [post_session EXCEPT ![op][1].name = post_name]
    /\ exclCache' = CacheAfterGet(exclCache, exclusions, post_name)
    /\ conv' = [conv EXCEPT ![op] = "POST_DATE"]
    /\ DbUnchanged /\ CalcUnchanged
    /\ UNCHANGED <<today, post_results>>

\* process_post_date
ProcessPostDate(op, date_str) ==
    /\ conv[op] = "POST_DATE"
    /\ IF date_str \notin Days
       THEN UNCHANGED <<conv, post_session>>
       ELSE LET members_before == get_members_before_date(date_str)
            IN  IF members_before = <<>>
                THEN /\ post_session' = [post_session EXCEPT ![op][1].date = date_str]
                     /\ conv' = [conv EXCEPT ![op] = "END"]
                ELSE /\ post_session' =
                          [post_session EXCEPT
                              ![op][1].date = date_str,
                              ![op][1].members_to_check = members_before]
                     /\ conv' = [conv EXCEPT ![op] = "POST_LIKES"]
    /\ memCache' = IF date_str \in Days
                   THEN MemCacheAfterGet(memCache, members_ws, << >>)
                   ELSE memCache
    /\ UNCHANGED <<exclusions, ledger, posts, history>>
    /\ CalcUnchanged
    /\ UNCHANGED <<today, exclCache, post_results>>

\* process_likes_images, on a photo
LikesPhoto(op) ==
    /\ conv[op] = "POST_LIKES"
    /\ \E shot \in Screenshots(post_session[op][1].members_to_check) :
           post_session' = [post_session EXCEPT
               ![op][1].found_likes = @ \cup ImageLikes(shot)]
    /\ DbUnchanged /\ CalcUnchanged
    /\ UNCHANGED <<today, exclCache, post_results, conv>>

\* process_likes_images, on 'Завершить этап'
LikesFinish(op) ==
    /\ conv[op] = "POST_LIKES"
    /\ conv' = [conv EXCEPT ![op] = "POST_COMMENTS"]
    /\ DbUnchanged /\ CalcUnchanged
    /\ UNCHANGED <<today, exclCache, post_session, post_results>>

\* process_comments_images, on a photo
CommentsPhoto(op) ==
    /\ conv[op] = "POST_COMMENTS"
    /\ \E shot \in Screenshots(post_session[op][1].members_to_check) :
           post_session' = [post_session EXCEPT
               ![op][1].found_comments = @ \cup ImageComments(shot)]
    /\ DbUnchanged /\ CalcUnchanged
    /\ UNCHANGED <<today, exclCache, post_results, conv>>

\* the activities confirm_post builds from the session
SessionActivities(session) ==
    [ i \in 1..Len(session.members_to_check) |->
        [ has_comment |-> session.members_to_check[i] \in session.found_comments,
          has_like    |-> session.members_to_check[i] \in session.found_likes,
          username    |-> session.members_to_check[i] ] ]

\* the post id confirm_post builds: name, date and the clock time HHMMSS
PostId(post_name, post_date, hhmmss) ==
    [date |-> post_date, hhmmss |-> hhmmss, name |-> post_name]

\* post_data of confirm_post
PostData(post_name, post_date, hhmmss) ==
    [ date |-> post_date,
      id   |-> PostId(post_name, post_date, hhmmss),
      name |-> post_name ]

\* process_comments_images, on 'Завершить этап': confirm_post
ConfirmPost(op) ==
    /\ conv[op] = "POST_COMMENTS"
    /\ LET session == post_session[op][1]
           post_data == PostData(session.name, session.date, clock)
           results == calculate_for_post(exclCache, exclusions, ledger, post_data,
                                         SessionActivities(session))
       IN  post_results' = [post_results EXCEPT ![op] =
               << [ \* ghost: what the stores held when the post was scored
                    excluded_at |-> exclusions,
                    post_data   |-> post_data,
                    results     |-> results,
                    scored_at   |-> Len(posts),
                    scored_len  |-> Len(ledger) ] >>]
    /\ exclCache' = CacheAfterGet(exclCache, exclusions, post_session[op][1].name)
    /\ conv' = [conv EXCEPT ![op] = "POST_CONFIRM"]
    /\ DbUnchanged /\ CalcUnchanged
    /\ UNCHANGED <<today, post_session>>

\* button_callback that saves and leaves the session and the state as they are
ButtonSaveStay(op) ==
    /\ conv[op] = "POST_CONFIRM"
    /\ post_results[op] # <<>>
    /\ LET pr == post_results[op][1]
           rows == ActivityRows(pr.post_data, pr.results, today)
       IN  /\ ledger' = ledger \o rows
           /\ posts' = Append(posts, PostRow(pr.post_data))
           /\ history' = Append(history,
                  [ excluded_at |-> pr.excluded_at,
                    first_row   |-> Len(ledger) + 1,
                    last_row    |-> Len(ledger) + Len(rows),
                    post_data   |-> pr.post_data,
                    saved_on    |-> today,
                    scored_at   |-> pr.scored_at,
                    scored_len  |-> pr.scored_len ])
    /\ CalcUnchanged
    /\ UNCHANGED <<today, exclusions, exclCache, conv, post_session,
                   post_results, memCache>>

\* button_callback, data 'save_post_...'
ButtonSave(op) ==
    /\ conv[op] = "POST_CONFIRM"
    /\ IF post_results[op] # <<>>
       THEN LET pr == post_results[op][1]
                rows == ActivityRows(pr.post_data, pr.results, today)
            IN  /\ ledger' = ledger \o rows
                /\ posts' = Append(posts, PostRow(pr.post_data))
                /\ history' = Append(history,
                       [ excluded_at |-> pr.excluded_at,
                         first_row   |-> Len(ledger) + 1,
                         last_row    |-> Len(ledger) + Len(rows),
                         post_data   |-> pr.post_data,
                         saved_on    |-> today,
                         scored_at   |-> pr.scored_at,
                         scored_len  |-> pr.scored_len ])
                /\ post_session' = [post_session EXCEPT ![op] = <<>>]
                /\ post_results' = [post_results EXCEPT ![op] = <<>>]
       ELSE UNCHANGED <<ledger, posts, history, post_session, post_results>>
    /\ conv' = [conv EXCEPT ![op] = "END"]
    /\ CalcUnchanged
    /\ UNCHANGED <<today, exclusions, exclCache, memCache>>

\* button_callback, data 'edit_post'
ButtonEdit(op) ==
    /\ conv[op] = "POST_CONFIRM"
    /\ conv' = [conv EXCEPT ![op] = "EDIT_CHOICE"]
    /\ DbUnchanged /\ CalcUnchanged
    /\ UNCHANGED <<today, exclCache, post_session, post_results>>

\* button_callback, data 'cancel_post'
ButtonCancel(op) ==
    /\ conv[op] = "POST_CONFIRM"
    /\ post_session' = [post_session EXCEPT ![op] = <<>>]
    /\ post_results' = [post_results EXCEPT ![op] = <<>>]
    /\ conv' = [conv EXCEPT ![op] = "END"]
    /\ DbUnchanged /\ CalcUnchanged
    /\ UNCHANGED <<today, exclCache>>

\* cancel (the /cancel fallback of the conversation)
Cancel(op) ==
    /\ conv[op] # "END"
    /\ post_session' = [post_session EXCEPT ![op] = <<>>]
    /\ post_results' = [post_results EXCEPT ![op] = <<>>]
    /\ conv' = [conv EXCEPT ![op] = "END"]
    /\ DbUnchanged /\ CalcUnchanged
    /\ UNCHANGED <<today, exclCache>>

\* add_exclusion (called by process_exclusion_reason for a roster member)
AddExclusion(username, post_name) ==
    /\ Cardinality(exclusions) < MaxExcl
    /\ exclusions' = exclusions \cup {ExclusionRow(username, post_name, TRUE)}
    /\ exclCache' = clear_cache(exclCache)
    /\ CalcUnchanged
    /\ UNCHANGED <<today, ledger, posts, history, conv, post_session,
                   post_results, memCache>>

\* an entry of the TTL cache expires
CacheExpire(post_name) ==
    /\ exclCache[post_name] # NoEntry
    /\ exclCache' = [exclCache EXCEPT ![post_name] = NoEntry]
    /\ DbUnchanged /\ CalcUnchanged
    /\ UNCHANGED <<today, conv, post_session, post_results>>

\* midnight passes
Tick ==
    /\ today < MaxDay
    /\ today' = today + 1
    /\ DbUnchanged /\ CalcUnchanged
    /\ UNCHANGED <<exclCache, conv, post_session, post_results>>

\* the stores and the sessions right after start-up, for a set of operators
InitWith(ops) ==
    /\ today = 1
    /\ exclusions = {}
    /\ exclCache = [n \in PostNames |-> NoEntry]
    /\ ledger = <<>>
    /\ posts = <<>>
    /\ conv = [op \in ops |-> "END"]
    /\ post_session = [op \in ops |-> <<>>]
    /\ post_results = [op \in ops |-> <<>>]
    /\ history = <<>>
    /\ calcIn = <<>>
    /\ calcOut = <<>>
    /\ matchIn = <<>>
    /\ matchOut = <<>>
    /\ simIn = <<>>
    /\ simOut = <<>>
    /\ totals = << HeaderRow >>
    /\ emptyRead = "none"
    /\ totIn = <<>>
    /\ totOut = <<>>
    /\ totFirst = <<>>
    /\ members_ws = Roster
    /\ clock = 0
    /\ batchIn = <<>>
    /\ batchOut = <<>>
    /\ memCache = [k \in MemberKeys |-> NoEntry]
    /\ dialogs = <<>>
    /\ user_data = <<>>
    /\ update = <<>>
    /\ imageIn = <<>>
    /\ imageOut = <<>>

Init == InitWith({"op1"})

InitTwoSessions == InitWith({"op1", "op2"})

Next ==
    \/ \E op \in Operators : NewPostStart(op)
    \/ \E op \in Operators, n \in PostNames : ProcessPostName(op, n)
    \/ \E op \in Operators, d \in Days \cup {0} : ProcessPostDate(op, d)
    \/ \E op \in Operators : LikesPhoto(op)
    \/ \E op \in Operators : LikesFinish(op)
    \/ \E op \in Operators : CommentsPhoto(op)
    \/ \E op \in Operators : ConfirmPost(op)
    \/ \E op \in Operators : ButtonSave(op)
    \/ \E op \in Operators : ButtonEdit(op)
    \/ \E op \in Operators : ButtonCancel(op)
    \/ \E op \in Operators : Cancel(op)
    \/ \E u \in Users, n \in ExclNames : AddExclusion(u, n)
    \/ \E n \in PostNames : CacheExpire(n)
    \/ Tick

\* one operator: posts are scored and saved one after another
Spec == Init /\ [][Next]_vars

\* the new-post conversation of one operator alone: no exclusion is added,
\* no cache entry expires and the day does not change
NextPost ==
    \/ \E op \in Operators : NewPostStart(op)
    \/ \E op \in Operators, n \in PostNames : ProcessPostName(op, n)
    \/ \E op \in Operators, d \in Days \cup {0} : ProcessPostDate(op, d)
    \/ \E op \in Operators : LikesPhoto(op)
    \/ \E op \in Operators : LikesFinish(op)
    \/ \E op \in Operators : CommentsPhoto(op)
    \/ \E op \in Operators : ConfirmPost(op)
    \/ \E op \in Operators : ButtonSave(op)
    \/ \E op \in Operators : ButtonEdit(op)
    \/ \E op \in Operators : ButtonCancel(op)
    \/ \E op \in Operators : Cancel(op)

SpecPost == Init /\ [][NextPost]_vars

\* two operators, whose handlers interleave
SpecTwoSessions == InitTwoSessions /\ [][Next]_vars

\* the seconds the clock of the model runs for
MaxClock == 1

\* a second passes (Tick is a day passing: the clock shows the same time on
\* the next day)
Second ==
    /\ clock < MaxClock
    /\ clock' = clock + 1
    /\ UNCHANGED <<today, exclusions, exclCache, ledger, posts, conv,
                   post_session, post_results, history, calcIn, calcOut,
                   matchIn, matchOut, simIn, simOut, members_ws, batchIn,
                   batchOut, memCache>>
    /\ TotalsUnchanged
    /\ DialogUnchanged

NextIds ==
    \/ Next
    \/ Second

\* one operator and the clock: the ids of the posts
SpecIds == Init /\ [][NextIds]_vars

(***************************************************************************)
(* The scoring engine called directly: calculate_for_post on any list of   *)
(* activity records, then save_activity on what it returned.               *)
(***************************************************************************)
MaxActs == 2

\* activity.get('username', '') is '' for a record without a username
NoUsername == ""

ActivityRecords ==
    [ has_comment : BOOLEAN, has_like : BOOLEAN, username : Users \cup {NoUsername} ]

ActivityLists == UNION { [1..n -> ActivityRecords] : n \in 0..MaxActs }

\* a ledger row as save_activity writes it for a post of name 'vibro'
LedgerRow(username, post_date, check, matsuni) ==
    [ check       |-> check,
      has_comment |-> (matsuni = like_comment),
      has_like    |-> TRUE,
      matsuni     |-> matsuni,
      post_id     |-> PostId("vibro", post_date, 0),
      username    |-> username ]

\* ledgers the bot can have written before the call
LedgerChoices ==
    { <<>>,
      << LedgerRow("alice", 1, 1, 1) >>,
      << LedgerRow("alice", 1, 1, 2) >>,
      << LedgerRow("alice", 1, MaxDay, 2) >>,
      << LedgerRow("bob", 1, 1, 2) >>,
      << LedgerRow("alice", 1, 1, 1), LedgerRow("alice", 1, 1, 2) >>,
      << LedgerRow("alice", 1, 1, 2), LedgerRow("alice", 1, 1, 2) >>,
      << LedgerRow("alice", 1, 1, 2), LedgerRow("bob", 1, 1, 2) >> }

\* contents of sheet 'Исключения' before the call
ExclusionChoices ==
    { {},
      { ExclusionRow("alice", "vibro", TRUE) },
      { ExclusionRow("alice", "vibro", FALSE) },
      { ExclusionRow("alice", "art", TRUE) },
      { ExclusionRow("alice", Wildcard, TRUE) },
      { ExclusionRow("alice", "vibro", TRUE), ExclusionRow("bob", "vibro", TRUE) } }

InitCalc ==
    /\ today \in Days
    /\ exclusions \in ExclusionChoices
    /\ exclCache = [n \in PostNames |-> NoEntry]
    /\ ledger \in LedgerChoices
    /\ posts = <<>>
    /\ conv = <<>>
    /\ post_session = <<>>
    /\ post_results = <<>>
    /\ history = <<>>
    /\ calcIn = <<>>
    /\ calcOut = <<>>
    /\ matchIn = <<>>
    /\ matchOut = <<>>
    /\ simIn = <<>>
    /\ simOut = <<>>
    /\ totals = << HeaderRow >>
    /\ emptyRead = "none"
    /\ totIn = <<>>
    /\ totOut = <<>>
    /\ totFirst = <<>>
    /\ members_ws = Roster
    /\ clock = 0
    /\ batchIn = <<>>
    /\ batchOut = <<>>
    /\ memCache = [k \in MemberKeys |-> NoEntry]
    /\ dialogs = <<>>
    /\ user_data = <<>>
    /\ update = <<>>
    /\ imageIn = <<>>
    /\ imageOut = <<>>

\* calculator.calculate_for_post(post_data, activities)
CalcCall(post_data, activities) ==
    /\ calcIn = <<>>
    /\ calcIn' = << [activities |-> activities, post_data |-> post_data] >>
    /\ calcOut' = calculate_for_post(exclCache, exclusions, ledger, post_data,
                                     activities)
    /\ exclCache' = CacheAfterGet(exclCache, exclusions, post_data.name)
    /\ DbUnchanged
    /\ UNCHANGED <<today, conv, post_session, post_results, matchIn, matchOut,
                   simIn, simOut>>
    /\ TotalsUnchanged
    /\ OthersUnchanged

\* db.save_activity(post_data, results) on the list the call returned
SaveCall ==
    /\ calcIn # <<>>
    /\ history = <<>>
    /\ LET post_data == calcIn[1].post_data
           rows == ActivityRows(post_data, calcOut, today)
       IN  /\ ledger' = ledger \o rows
           /\ posts' = Append(posts, PostRow(post_data))
           /\ history' = Append(history,
                  [ excluded_at |-> exclusions,
                    first_row   |-> Len(ledger) + 1,
                    last_row    |-> Len(ledger) + Len(rows),
                    post_data   |-> post_data,
                    saved_on    |-> today,
                    scored_at   |-> Len(posts),
                    scored_len  |-> Len(ledger) ])
    /\ CalcUnchanged
    /\ UNCHANGED <<today, exclusions, exclCache, conv, post_session,
                   post_results, memCache>>

NextCalc ==
    \/ \E n \in PostNames, d \in Days, acts \in ActivityLists :
          CalcCall(PostData(n, d, 0), acts)
    \/ SaveCall

SpecCalc == InitCalc /\ [][NextCalc]_vars

(***************************************************************************)
(* The identity matcher (bot/services/image_ocr.py).                       *)
(*                                                                         *)
(* A string is a sequence of symbols.  The letters stand for the class     *)
(* [a-zA-Z0-9_.] of the patterns: "a" is a lowercase letter, "B" an        *)
(* uppercase one and "b" what str.lower() makes of it.  Each of the two    *)
(* verbs the patterns end with ('любит', 'нравится') is one symbol: its    *)
(* letters are outside the class, so a part of a verb is to the patterns   *)
(* what any other symbol outside the class is; with re.IGNORECASE the      *)
(* symbol stands for the verb in any case.  A confidence is the exact      *)
(* fraction <<numerator, denominator>> in lowest terms.                    *)
(***************************************************************************)
MaxText == 4

\* the characters of the model that are of the class [a-zA-Z0-9_.]
WordChars ==
    {"a", "b", "B", "l", "m", "n", "o", "r", "s", "v", "w", "0", "1", "5"}
Lyubit == "lyubit"
Nravitsya == "nravitsya"
TextAlphabet == {"a", "B", "@", ":", " ", Lyubit, Nravitsya}
Texts == UNION { [1..n -> TextAlphabet] : n \in 0..MaxText }

\* str.lower()
lower(str) ==
    [i \in DOMAIN str |-> IF str[i] = "B" THEN "b" ELSE str[i]]

RECURSIVE Gcd(_, _)
Gcd(m, n) == IF n = 0 THEN m ELSE Gcd(n, m % n)

\* the fraction num / den (den > 0) in lowest terms
Fraction(num, den) ==
    LET g == Gcd(IF num < 0 THEN -num ELSE num, den)
    IN  << num \div g, den \div g >>

\* p >= q and p > q on fractions
Geq(p, q) == p[1] * q[2] >= q[1] * p[2]
Gt(p, q) == p[1] * q[2] > q[1] * p[2]

\* [a-zA-Z0-9_.]+ from position i: the position after the longest run
RECURSIVE WordEnd(_, _)
WordEnd(text, i) ==
    IF i <= Len(text) /\ text[i] \in WordChars
    THEN WordEnd(text, i + 1)
    ELSE i

\* \s* from position i: the position after the longest run
RECURSIVE SpaceEnd(_, _)
SpaceEnd(text, i) ==
    IF i <= Len(text) /\ text[i] = " "
    THEN SpaceEnd(text, i + 1)
    ELSE i

\* a variant of MatchAt without the first alternative, '@username'
MatchAtNoHandle(text, i) ==
    LET word == WordEnd(text, i)
        mark == SpaceEnd(text, word)
    IN  IF /\ word > i
           /\ mark <= Len(text)
           /\ text[mark] \in {":", Lyubit, Nravitsya}
        THEN << SubSeq(text, i, word - 1), mark + 1 >>
        ELSE << >>

\* the four alternatives of all_patterns tried at position i in their order:
\* <<group, position after the match>>, or <<>> when none matches.  A
\* shorter run of the class or of spaces is always followed by a symbol of
\* the same run, so backtracking finds no other match.
MatchAt(text, i) ==
    LET handle == WordEnd(text, i + 1)
        word == WordEnd(text, i)
        mark == SpaceEnd(text, word)
    IN  IF text[i] = "@" /\ handle > i + 1
        THEN << SubSeq(text, i + 1, handle - 1), handle >>
        ELSE IF /\ word > i
                /\ mark <= Len(text)
                /\ text[mark] \in {":", Lyubit, Nravitsya}
        THEN << SubSeq(text, i, word - 1), mark + 1 >>
        ELSE << >>

\* re.findall(all_patterns, text, re.IGNORECASE) from position i, each tuple
\* of groups already joined: the scan resumes where a match ended
RECURSIVE findall(_, _)
findall(text, i) ==
    IF i > Len(text)
    THEN << >>
    ELSE LET m == MatchAt(text, i)
         IN  IF m = << >>
             THEN findall(text, i + 1)
             ELSE << m[1] >> \o findall(text, m[2])

\* shorter in longer
IsSubstring(shorter, longer) ==
    \E k \in 0..(Len(longer) - Len(shorter)) :
        SubSeq(longer, k + 1, k + Len(shorter)) = shorter

\* a variant of Levenshtein where replacing a character costs 2
LevenshteinCostTwo(str1, str2) ==
    LET matrix[i \in 0..Len(str1), j \in 0..Len(str2)] ==
            IF j = 0 THEN i
            ELSE IF i = 0 THEN j
            ELSE LET cost == IF str1[i] = str2[j] THEN 0 ELSE 2
                 IN  Min(Min(matrix[i - 1, j] + 1, matrix[i, j - 1] + 1),
                         matrix[i - 1, j - 1] + cost)
    IN  matrix[Len(str1), Len(str2)]

\* the matrix of _calculate_similarity, read at its last cell
Levenshtein(str1, str2) ==
    LET matrix[i \in 0..Len(str1), j \in 0..Len(str2)] ==
            IF j = 0 THEN i
            ELSE IF i = 0 THEN j
            ELSE LET cost == IF str1[i] = str2[j] THEN 0 ELSE 1
                 IN  Min(Min(matrix[i - 1, j] + 1, matrix[i, j - 1] + 1),
                         matrix[i - 1, j - 1] + cost)
    IN  matrix[Len(str1), Len(str2)]

\* a variant of _calculate_similarity that divides by the length of str1
SimilarityByFirstLength(str1, str2) ==
    IF str1 = str2
    THEN Fraction(1, 1)
    ELSE LET longer == IF Len(str1) > Len(str2) THEN str1 ELSE str2
             shorter == IF Len(str1) <= Len(str2) THEN str1 ELSE str2
         IN  IF IsSubstring(shorter, longer)
             THEN Fraction(9, 10)
             ELSE Fraction(Len(str1) - Levenshtein(str1, str2), Len(str1))

\* ImageProcessor._calculate_similarity(str1, str2)
_calculate_similarity(str1, str2) ==
    IF str1 = str2
    THEN Fraction(1, 1)
    ELSE LET longer == IF Len(str1) > Len(str2) THEN str1 ELSE str2
             shorter == IF Len(str1) <= Len(str2) THEN str1 ELSE str2
             distance == Levenshtein(str1, str2)
             max_len == Max(Len(str1), Len(str2))
         IN  IF IsSubstring(shorter, longer)
             THEN Fraction(9, 10)
             ELSE IF max_len = 0
             THEN Fraction(1, 1)
             ELSE Fraction(max_len - distance, max_len)

\* the inner loop of find_usernames: one token against every member
RECURSIVE CheckMembers(_, _, _)
CheckMembers(username, members_list, min_confidence) ==
    IF members_list = << >>
    THEN << >>
    ELSE LET member == Head(members_list)
             confidence == _calculate_similarity(lower(username), lower(member))
         IN  (IF Geq(confidence, min_confidence)
              THEN << <<member, confidence>> >>
              ELSE << >>)
             \o CheckMembers(username, Tail(members_list), min_confidence)

\* the outer loop of find_usernames: the list `found`
RECURSIVE FoundList(_, _, _)
FoundList(matches, members_list, min_confidence) ==
    IF matches = << >>
    THEN << >>
    ELSE CheckMembers(Head(matches), members_list, min_confidence)
         \o FoundList(Tail(matches), members_list, min_confidence)

\* a variant of UniqueFound that keeps every pair
UniqueFoundKeepAll(found, unique_found) == unique_found \o found

\* the dict unique_found as the list of its items, in insertion order
RECURSIVE UniqueFound(_, _)
UniqueFound(found, unique_found) ==
    IF found = << >>
    THEN unique_found
    ELSE LET username == Head(found)[1]
             confidence == Head(found)[2]
             held == { k \in DOMAIN unique_found :
                          unique_found[k][1] = username }
         IN  UniqueFound(Tail(found),
                 IF held = {}
                 THEN Append(unique_found, Head(found))
                 ELSE [ k \in DOMAIN unique_found |->
                          IF k \in held /\ Gt(confidence, unique_found[k][2])
                          THEN Head(found)
                          ELSE unique_found[k] ])

\* a variant of SortedByConfidence that leaves the items as they are
SortedByConfidenceNone(items) == items

\* sorted(items, key=lambda x: x[1], reverse=True): stable, so equal
\* confidences keep the order of the items
RECURSIVE SortedByConfidence(_)
SortedByConfidence(items) ==
    IF items = << >>
    THEN << >>
    ELSE LET rest == SortedByConfidence(SubSeq(items, 1, Len(items) - 1))
             item == items[Len(items)]
             ahead == SelectSeq(rest, LAMBDA x : Geq(x[2], item[2]))
             behind == SelectSeq(rest, LAMBDA x : ~Geq(x[2], item[2]))
         IN  ahead \o << item >> \o behind

\* ImageProcessor.find_usernames(text, members_list, min_confidence)
find_usernames(text, members_list, min_confidence) ==
    LET matches == findall(text, 1)
        found == FoundList(matches, members_list, min_confidence)
    IN  SortedByConfidence(UniqueFound(found, << >>))

\* rosters handed to the matcher: empty, one member, two members in both
\* orders, a member that is a part of another, the same name twice, names
\* that differ in case only, three members
RosterChoices ==
    { << >>,
      << <<"a", "b">> >>,
      << <<"a", "b">>, <<"b", "a">> >>,
      << <<"b", "a">>, <<"a", "b">> >>,
      << <<"a">>, <<"a", "b">> >>,
      << <<"a", "b">>, <<"a", "b">> >>,
      << <<"a", "B">>, <<"a", "b">> >>,
      << <<"a">>, <<"b">>, <<"a", "b">> >> }

\* values of min_confidence: -1/2, 0, 1/2, the default 0.8, 1 and 3/2
ConfidenceChoices ==
    { Fraction(-1, 2), Fraction(0, 1), Fraction(1, 2), Fraction(4, 5),
      Fraction(1, 1), Fraction(3, 2) }

InitMatch ==
    /\ today = 1
    /\ exclusions = {}
    /\ exclCache = [n \in PostNames |-> NoEntry]
    /\ ledger = <<>>
    /\ posts = <<>>
    /\ conv = <<>>
    /\ post_session = <<>>
    /\ post_results = <<>>
    /\ history = <<>>
    /\ calcIn = <<>>
    /\ calcOut = <<>>
    /\ matchIn = <<>>
    /\ matchOut = <<>>
    /\ simIn = <<>>
    /\ simOut = <<>>
    /\ totals = << HeaderRow >>
    /\ emptyRead = "none"
    /\ totIn = <<>>
    /\ totOut = <<>>
    /\ totFirst = <<>>
    /\ members_ws = Roster
    /\ clock = 0
    /\ batchIn = <<>>
    /\ batchOut = <<>>
    /\ memCache = [k \in MemberKeys |-> NoEntry]
    /\ dialogs = <<>>
    /\ user_data = <<>>
    /\ update = <<>>
    /\ imageIn = <<>>
    /\ imageOut = <<>>

\* image_processor.find_usernames(text, members_list, min_confidence)
FindCall(text, members_list, min_confidence) ==
    /\ matchIn = <<>>
    /\ matchIn' = << [ members_list   |-> members_list,
                       min_confidence |-> min_confidence,
                       text           |-> text ] >>
    /\ matchOut' = find_usernames(text, members_list, min_confidence)
    /\ DbUnchanged
    /\ UNCHANGED <<today, exclCache, conv, post_session, post_results,
                   calcIn, calcOut, simIn, simOut>>
    /\ TotalsUnchanged
    /\ OthersUnchanged

\* one call in a behaviour: its arguments are drawn when it is made
NextMatch ==
    /\ matchIn = <<>>
    /\ \E text \in Texts, members_list \in RosterChoices,
          min_confidence \in ConfidenceChoices :
             FindCall(text, members_list, min_confidence)

SpecMatch == InitMatch /\ [][NextMatch]_vars

(***************************************************************************)
(* Calls of _calculate_similarity: a call with two strings as they are,    *)
(* and the call find_usernames makes for a token and a member, which       *)
(* passes both in lower case.                                              *)
(***************************************************************************)
MaxStr == 3

SimChars == {"a", "b", "B"}
SimStrings == UNION { [1..n -> SimChars] : n \in 0..MaxStr }

InitSim ==
    /\ today = 1
    /\ exclusions = {}
    /\ exclCache = [n \in PostNames |-> NoEntry]
    /\ ledger = <<>>
    /\ posts = <<>>
    /\ conv = <<>>
    /\ post_session = <<>>
    /\ post_results = <<>>
    /\ history = <<>>
    /\ calcIn = <<>>
    /\ calcOut = <<>>
    /\ matchIn = <<>>
    /\ matchOut = <<>>
    /\ simIn = <<>>
    /\ simOut = <<>>
    /\ totals = << HeaderRow >>
    /\ emptyRead = "none"
    /\ totIn = <<>>
    /\ totOut = <<>>
    /\ totFirst = <<>>
    /\ members_ws = Roster
    /\ clock = 0
    /\ batchIn = <<>>
    /\ batchOut = <<>>
    /\ memCache = [k \in MemberKeys |-> NoEntry]
    /\ dialogs = <<>>
    /\ user_data = <<>>
    /\ update = <<>>
    /\ imageIn = <<>>
    /\ imageOut = <<>>

SimFrame ==
    /\ DbUnchanged
    /\ UNCHANGED <<today, exclCache, conv, post_session, post_results,
                   calcIn, calcOut, matchIn, matchOut>>
    /\ TotalsUnchanged
    /\ OthersUnchanged

\* self._calculate_similarity(str1, str2)
SimCall(str1, str2) ==
    /\ simIn = <<>>
    /\ simIn' = << "_calculate_similarity", str1, str2 >>
    /\ simOut' = _calculate_similarity(str1, str2)
    /\ SimFrame

\* find_usernames: confidence = self._calculate_similarity(username.lower(),
\* member.lower()) for a token (never empty) and a member
CheckMember(username, member) ==
    /\ simIn = <<>>
    /\ username # << >>
    /\ simIn' = << "find_usernames", username, member >>
    /\ simOut' = _calculate_similarity(lower(username), lower(member))
    /\ SimFrame

\* one call in a behaviour: its arguments are drawn when it is made
NextSim ==
    \/ /\ simIn = <<>>
       /\ \E str1, str2 \in SimStrings : SimCall(str1, str2)
    \/ /\ simIn = <<>>
       /\ \E username, member \in SimStrings : CheckMember(username, member)

SpecSim == InitSim /\ [][NextSim]_vars

(***************************************************************************)
(* Date texts.  A date text is a sequence of characters.  Day 1 of the     *)
(* model is 9 January 2024, so the days of the model lie in January 2024   *)
(* on both sides of the change from one digit to two.                      *)
(***************************************************************************)
Digits == << "0", "1", "2", "3", "4", "5", "6", "7", "8", "9" >>

IsDigit(c) == \E k \in DOMAIN Digits : Digits[k] = c
DigitValue(c) == (CHOOSE k \in DOMAIN Digits : Digits[k] = c) - 1

\* ord(c) for the characters of a date text
ord(c) == IF c = "-" THEN 45 ELSE 48 + DigitValue(c)

\* s <= t on Python strings: the first character that differs decides, and
\* a string is above its proper beginnings
RECURSIVE StrLeq(_, _)
StrLeq(s, t) ==
    IF s = << >> THEN TRUE
    ELSE IF t = << >> THEN FALSE
    ELSE IF Head(s) = Head(t) THEN StrLeq(Tail(s), Tail(t))
    ELSE ord(Head(s)) < ord(Head(t))

\* the day of January 2024 that day d of the model is
DayOfMonth(d) == d + 8

\* a number below 100 in two digits (%m, %d of strftime) and as typed
\* without a leading zero
TwoDigits(n) == << Digits[(n \div 10) + 1], Digits[(n % 10) + 1] >>
NoPadding(n) == IF n < 10 THEN << Digits[n + 1] >> ELSE TwoDigits(n)

\* datetime.strftime('%Y-%m-%d') for day d
strftime(d) ==
    << "2", "0", "2", "4", "-", "0", "1", "-" >> \o TwoDigits(DayOfMonth(d))

\* the same date typed without leading zeros, as in 2024-1-9
Unpadded(d) ==
    << "2", "0", "2", "4", "-", "1", "-" >> \o NoPadding(DayOfMonth(d))

\* date_str.split('-')
RECURSIVE SplitDash(_)
SplitDash(str) ==
    IF \A k \in DOMAIN str : str[k] # "-"
    THEN << str >>
    ELSE LET k == CHOOSE i \in DOMAIN str :
                      str[i] = "-" /\ \A j \in 1..(i - 1) : str[j] # "-"
         IN  << SubSeq(str, 1, k - 1) >>
             \o SplitDash(SubSeq(str, k + 1, Len(str)))

\* int() of a run of digits
RECURSIVE ToNumber(_)
ToNumber(digits) ==
    IF digits = << >> THEN 0
    ELSE 10 * ToNumber(SubSeq(digits, 1, Len(digits) - 1))
         + DigitValue(digits[Len(digits)])

\* days of 2024 before each month, and in each month
DaysBefore == << 0, 31, 60, 91, 121, 152, 182, 213, 244, 274, 305, 335 >>
DaysIn == << 31, 29, 31, 30, 31, 30, 31, 31, 30, 31, 30, 31 >>

\* datetime.strptime(date_str, '%Y-%m-%d'): << day of the model >>, or << >>
\* for the ValueError.  %Y takes four digits, %m and %d one or two.  The
\* years other than 2024 are counted as if they had 366 days; no text of
\* the model is of another year.
strptime(date_str) ==
    LET fields == SplitDash(date_str)
        wellFormed ==
            /\ Len(fields) = 3
            /\ Len(fields[1]) = 4
            /\ Len(fields[2]) \in 1..2
            /\ Len(fields[3]) \in 1..2
            /\ \A f \in 1..3 : \A k \in DOMAIN fields[f] : IsDigit(fields[f][k])
        year == ToNumber(fields[1])
        month == ToNumber(fields[2])
        day == ToNumber(fields[3])
    IN  IF /\ wellFormed
           /\ month \in 1..12
           /\ day \in 1..DaysIn[month]
        THEN << 366 * (year - 2024) + DaysBefore[month] + day - DayOfMonth(0) >>
        ELSE << >>

\* validate_date(date_str)
validate_date(date_str) == strptime(date_str) # << >>

(***************************************************************************)
(* GoogleSheetsDB.calculate_totals and                                     *)
(* MatsuniCalculator.calculate_period_totals.  A period id and the         *)
(* 'period' of a report are the pair of the two date texts.  A fraction    *)
(* stands for the float of the same value; averages are rounded to         *)
(* hundredths and efficiencies to tenths, to even on a tie (a tie needs a  *)
(* number of days that 8 divides, and 1/8 is a float).                     *)
(***************************************************************************)
MaxLedger == 2

\* the keys of the dict `members` built from sheet 'Участники'
MemberNames == { Roster[i].username : i \in DOMAIN Roster }

\* members[username].get('Дата добавления', ''): the last row of the name
\* (asked for the keys of `members` only)
MemberJoinDate(username) ==
    IF username \in MemberNames
    THEN Roster[CHOOSE i \in DOMAIN Roster :
                    /\ Roster[i].username = username
                    /\ \A j \in DOMAIN Roster :
                          Roster[j].username = username => j <= i].join_date
    ELSE -1

\* row['Время проверки'].split()[0] of a ledger row
ActivityDate(row) == strftime(row.check)

\* the list `activities`: the rows with start_date <= activity_date <= end_date
FilterByPeriod(data, start_date, end_date) ==
    SelectSeq(data, LAMBDA row :
        /\ StrLeq(start_date, ActivityDate(row))
        /\ StrLeq(ActivityDate(row), end_date))

\* a variant of GroupByMember that groups the rows of every username
RECURSIVE GroupByMemberAll(_, _)
GroupByMemberAll(activities, results) ==
    IF activities = << >>
    THEN results
    ELSE LET activity == Head(activities)
             username == activity.username
             held == { k \in DOMAIN results : results[k].username = username }
         IN  GroupByMemberAll(Tail(activities),
                 IF held = {}
                 THEN Append(results,
                          [ days_active   |-> { ActivityDate(activity) },
                            total_matsuni |-> activity.matsuni,
                            username      |-> username ])
                 ELSE [ k \in DOMAIN results |->
                          IF k \in held
                          THEN [ days_active   |-> results[k].days_active
                                                     \cup { ActivityDate(activity) },
                                 total_matsuni |-> results[k].total_matsuni
                                                     + activity.matsuni,
                                 username      |-> username ]
                          ELSE results[k] ])

\* the dict `results` as the list of its values, in insertion order
RECURSIVE GroupByMember(_, _)
GroupByMember(activities, results) ==
    IF activities = << >>
    THEN results
    ELSE LET activity == Head(activities)
             username == activity.username
             held == { k \in DOMAIN results : results[k].username = username }
         IN  GroupByMember(Tail(activities),
                 IF username \notin MemberNames
                 THEN results
                 ELSE IF held = {}
                 THEN Append(results,
                          [ days_active   |-> { ActivityDate(activity) },
                            total_matsuni |-> activity.matsuni,
                            username      |-> username ])
                 ELSE [ k \in DOMAIN results |->
                          IF k \in held
                          THEN [ days_active   |-> results[k].days_active
                                                     \cup { ActivityDate(activity) },
                                 total_matsuni |-> results[k].total_matsuni
                                                     + activity.matsuni,
                                 username      |-> username ]
                          ELSE results[k] ])

\* round(num / den, places) for den > 0, scale = 10 ^ places
RoundTo(num, den, scale) ==
    LET q == (scale * num) \div den
        r == (scale * num) % den
    IN  Fraction(IF 2 * r < den THEN q
                 ELSE IF 2 * r > den THEN q + 1
                 ELSE IF q % 2 = 0 THEN q
                 ELSE q + 1,
                 scale)

\* final_results before the sort; the 'status' of a record is a copy of a
\* roster column the model does not hold (every member is active)
MemberTotals(results) ==
    [ k \in DOMAIN results |->
        LET days_active == Cardinality(results[k].days_active)
        IN  [ avg_matsuni   |-> IF days_active > 0
                                THEN RoundTo(results[k].total_matsuni,
                                             days_active, 100)
                                ELSE Fraction(0, 1),
              days_active   |-> days_active,
              join_date     |-> MemberJoinDate(results[k].username),
              total_matsuni |-> results[k].total_matsuni,
              username      |-> results[k].username ] ]

\* final_results.sort(key=lambda x: x['total_matsuni'], reverse=True): stable
RECURSIVE SortedByTotal(_)
SortedByTotal(final_results) ==
    IF final_results = << >>
    THEN << >>
    ELSE LET rest == SortedByTotal(SubSeq(final_results, 1,
                                          Len(final_results) - 1))
             item == final_results[Len(final_results)]
             ahead == SelectSeq(rest, LAMBDA x :
                          x.total_matsuni >= item.total_matsuni)
             behind == SelectSeq(rest, LAMBDA x :
                          x.total_matsuni < item.total_matsuni)
         IN  ahead \o << item >> \o behind

\* for i, result in enumerate(final_results, 1): result['rank'] = i
WithRanks(final_results) ==
    [ i \in DOMAIN final_results |->
        [ avg_matsuni   |-> final_results[i].avg_matsuni,
          days_active   |-> final_results[i].days_active,
          join_date     |-> final_results[i].join_date,
          rank          |-> i,
          total_matsuni |-> final_results[i].total_matsuni,
          username      |-> final_results[i].username ] ]

\* a cell that holds the number v, as update(..., 'RAW') stores an int or a
\* float, and a cell that holds the text that shows v, as it stores a str
Number(v) == << "number", v >>
TextOf(v) == << "text", v >>

\* a row of sheet 'Итоги'
TotalsRow(period_id, result) ==
    << period_id, result.username, Number(result.days_active),
       Number(result.total_matsuni), Number(result.avg_matsuni),
       Number(result.rank) >>

\* a row as get_all_values gives it: every cell as the text the sheet
\* shows for it (columns 'Период' and 'Username' hold texts already)
Rendered(row) ==
    [ c \in DOMAIN row |-> IF c <= 2 THEN row[c] ELSE TextOf(row[c][2]) ]

\* totals_ws.get_all_values()
get_all_values(sheet, empty_read) ==
    IF sheet = << >>
    THEN IF empty_read = "row" THEN << << >> >> ELSE << >>
    ELSE [ k \in DOMAIN sheet |-> Rendered(sheet[k]) ]

\* a variant of KeepRow that keeps every row
KeepRowAll(row, period_id) == TRUE

\* len(row) > 0 and row[0] != period_id, for a row after the first; the
\* rows read after the first are padded to the width of the sheet
KeepRow(row, period_id) == Len(row) < 6 \/ row[1] # period_id

\* the cells a sheet holds after update(values): rows without a cell at
\* the end of the values leave nothing behind
RECURSIVE Written(_)
Written(values) ==
    IF values # << >> /\ values[Len(values)] = << >>
    THEN Written(SubSeq(values, 1, Len(values) - 1))
    ELSE values

RECURSIVE SumTotals(_)
SumTotals(final_results) ==
    IF final_results = << >> THEN 0
    ELSE Head(final_results).total_matsuni + SumTotals(Tail(final_results))

\* GoogleSheetsDB.calculate_totals(start_date, end_date):
\* << outcome, report, activities, sheet 'Итоги' after the call >>
calculate_totals(data, sheet, empty_read, start_date, end_date) ==
    LET activities == FilterByPeriod(data, start_date, end_date)
        final_results ==
            WithRanks(SortedByTotal(MemberTotals(
                GroupByMember(activities, << >>))))
        period_id == << start_date, end_date >>
        existing_data == get_all_values(sheet, empty_read)
        rows_to_keep ==
            << existing_data[1] >>
            \o SelectSeq(Tail(existing_data),
                         LAMBDA row : KeepRow(row, period_id))
        new_rows == [ i \in DOMAIN final_results |->
                        TotalsRow(period_id, final_results[i]) ]
        written == Written(rows_to_keep \o new_rows)
    IN  IF existing_data = << >>
        THEN << "IndexError", << >>, activities, sheet >>
        ELSE IF strptime(start_date) = << >> \/ strptime(end_date) = << >>
        THEN << "ValueError", << >>, activities, written >>
        ELSE << "ok",
                [ period        |-> period_id,
                  results       |-> final_results,
                  total_days    |-> strptime(end_date)[1]
                                      - strptime(start_date)[1] + 1,
                  total_matsuni |-> SumTotals(final_results),
                  total_members |-> Len(final_results) ],
                activities, written >>

\* the loop of calculate_period_totals over result['results']
PeriodMetrics(result) ==
    [ i \in DOMAIN result.results |->
        LET res == result.results[i]
        IN  [ activity_level |->
                  IF Geq(res.avg_matsuni, Fraction(3, 2)) THEN "high"
                  ELSE IF Geq(res.avg_matsuni, Fraction(1, 2)) THEN "medium"
                  ELSE "low",
              avg_matsuni    |-> res.avg_matsuni,
              days_active    |-> res.days_active,
              efficiency     |-> IF result.total_days > 0
                                 THEN RoundTo(100 * res.days_active,
                                              result.total_days, 10)
                                 ELSE Fraction(0, 1),
              join_date      |-> res.join_date,
              rank           |-> res.rank,
              total_matsuni  |-> res.total_matsuni,
              username       |-> res.username ] ]

\* MatsuniCalculator.calculate_period_totals(start_date, end_date)
calculate_period_totals(data, sheet, empty_read, start_date, end_date) ==
    LET call == calculate_totals(data, sheet, empty_read, start_date, end_date)
        result == call[2]
    IN  IF call[1] # "ok"
        THEN call
        ELSE << "ok",
                [ period        |-> result.period,
                  results       |-> PeriodMetrics(result),
                  total_days    |-> result.total_days,
                  total_matsuni |-> result.total_matsuni,
                  total_members |-> result.total_members ],
                call[3], call[4] >>

\* the days ledger rows and periods are taken from: 9 and 10 January
TotalsDays == {1, 2}

\* the date texts validate_date accepts for those days, with and without
\* leading zeros
DateTexts ==
    { strftime(d) : d \in TotalsDays } \cup { Unpadded(d) : d \in TotalsDays }

\* a text validate_date refuses
InvalidDate == << "2", "0", "2", "4", "-", "0", "1", "-", "3", "2" >>

\* a username of ledger rows that sheet 'Участники' does not hold: the
\* sheets are edited by hand as well
Stranger == "carol"

\* ledger rows the bot writes: a post of the day before, checked on day d
\* (no row of the check day is dated like the post, so no award is capped);
\* the rows of the other username are rows of a like and a comment
TotalsRows ==
    { LedgerRow(u, d - 1, d, m) :
        u \in Users, d \in TotalsDays, m \in {like_only, like_comment} }
    \cup { LedgerRow(Stranger, d - 1, d, like_comment) : d \in TotalsDays }
\* save_activity appends a row stamped with the time of the call, so the
\* rows of sheet 'Активность' are in the order of their check times
TotalsLedgers ==
    { data \in UNION { [1..n -> TotalsRows] : n \in 0..MaxLedger } :
        \A i, j \in DOMAIN data : i < j => data[i].check <= data[j].check }

\* sheet 'Итоги' before the call: nothing in it, the header alone, the
\* header and a row of an earlier calculation for 9 January
TotalsChoices ==
    { << >>,
      << HeaderRow >>,
      << HeaderRow,
         << << strftime(1), strftime(1) >>, "alice", Number(1), Number(1),
            Number(Fraction(1, 1)), Number(1) >> >> }

\* what a sheet with nothing in it reads as matters for such a sheet only
InitTotals ==
    /\ today = 1
    /\ exclusions = {}
    /\ exclCache = [n \in PostNames |-> NoEntry]
    /\ ledger \in TotalsLedgers
    /\ posts = <<>>
    /\ conv = <<>>
    /\ post_session = <<>>
    /\ post_results = <<>>
    /\ history = <<>>
    /\ calcIn = <<>>
    /\ calcOut = <<>>
    /\ matchIn = <<>>
    /\ matchOut = <<>>
    /\ simIn = <<>>
    /\ simOut = <<>>
    /\ totals \in TotalsChoices
    /\ emptyRead \in IF totals = << >> THEN {"none", "row"} ELSE {"none"}
    /\ totIn = <<>>
    /\ totOut = <<>>
    /\ totFirst = <<>>
    /\ members_ws = Roster
    /\ clock = 0
    /\ batchIn = <<>>
    /\ batchOut = <<>>
    /\ memCache = [k \in MemberKeys |-> NoEntry]
    /\ dialogs = <<>>
    /\ user_data = <<>>
    /\ update = <<>>
    /\ imageIn = <<>>
    /\ imageOut = <<>>

TotalsFrame ==
    /\ UNCHANGED <<today, exclusions, exclCache, ledger, posts, conv,
                   post_session, post_results, history, calcIn, calcOut,
                   matchIn, matchOut, simIn, simOut, emptyRead, memCache>>
    /\ OthersUnchanged

\* the call of an entry point on the stored sheets
RunTotals(entry, start_date, end_date) ==
    IF entry = "calculate_period_totals"
    THEN calculate_period_totals(ledger, totals, emptyRead, start_date, end_date)
    ELSE calculate_totals(ledger, totals, emptyRead, start_date, end_date)

\* db.calculate_totals(start_date, end_date)
TotalsCall(start_date, end_date) ==
    /\ totIn = <<>>
    /\ \E call \in { RunTotals("calculate_totals", start_date, end_date) } :
           /\ totIn' = << "calculate_totals", start_date, end_date >>
           /\ totOut' = << call[1], call[2], call[3] >>
           /\ totals' = call[4]
    /\ UNCHANGED totFirst
    /\ TotalsFrame

\* calculator.calculate_period_totals(start_date, end_date)
PeriodTotalsCall(start_date, end_date) ==
    /\ totIn = <<>>
    /\ \E call \in { RunTotals("calculate_period_totals", start_date, end_date) } :
           /\ totIn' = << "calculate_period_totals", start_date, end_date >>
           /\ totOut' = << call[1], call[2], call[3] >>
           /\ totals' = call[4]
    /\ UNCHANGED totFirst
    /\ TotalsFrame

\* the same call made a second time, nothing else done in between
TotalsAgain ==
    /\ totIn # <<>>
    /\ totFirst = <<>>
    /\ \E call \in { RunTotals(totIn[1], totIn[2], totIn[3]) } :
           /\ totOut' = << call[1], call[2], call[3] >>
           /\ totals' = call[4]
    /\ totFirst' = << totOut, totals >>
    /\ UNCHANGED totIn
    /\ TotalsFrame

\* the handlers of the bot refuse a date validate_date refuses before they
\* call calculate_period_totals; calculate_totals is called with any text
NextTotals ==
    \/ /\ totIn = <<>>
       /\ \E start_date, end_date \in DateTexts \cup {InvalidDate} :
             TotalsCall(start_date, end_date)
    \/ /\ totIn = <<>>
       /\ \E start_date, end_date \in DateTexts :
             PeriodTotalsCall(start_date, end_date)
    \/ TotalsAgain

SpecTotals == InitTotals /\ [][NextTotals]_vars

(***************************************************************************)
(* GoogleSheetsDB.add_member and update_member_status on sheet             *)
(* 'Участники', which starts with its header alone.  A username is a       *)
(* sequence of characters: "b" and "B" are of the class [a-zA-Z0-9_.], the *)
(* space and the line feed are not.  The column 'Телеграм ID' is written   *)
(* and never read, and is left out of the rows.                            *)
(***************************************************************************)
MaxMembers == 2
MaxName == 2

NameChars == {"b", "B", " ", "\n"}
NameTexts == UNION { [1..n -> NameChars] : n \in 0..MaxName }

\* re.match(r'^[a-zA-Z0-9_.]+$', username): '$' also matches before a line
\* feed that ends the text
validate_username(username) ==
    LET n == IF username # << >> /\ username[Len(username)] = "\n"
             THEN Len(username) - 1
             ELSE Len(username)
    IN  /\ n > 0
        /\ \A k \in 1..n : username[k] \in WordChars

\* the statuses a row is given
StatusTexts == {Active, "paused"}

\* the join dates add_member is called with: None, a date, a text that is
\* no date
JoinDates == { << >>, strftime(1), InvalidDate }

\* ws.append_row([username, join_date, 'активен', telegram_id or ''])
MemberRow(username, join_date) ==
    [ join_date |-> join_date, status |-> Active, username |-> username ]

InitRoster ==
    /\ today = 1
    /\ exclusions = {}
    /\ exclCache = [n \in PostNames |-> NoEntry]
    /\ ledger = <<>>
    /\ posts = <<>>
    /\ conv = <<>>
    /\ post_session = <<>>
    /\ post_results = <<>>
    /\ history = <<>>
    /\ calcIn = <<>>
    /\ calcOut = <<>>
    /\ matchIn = <<>>
    /\ matchOut = <<>>
    /\ simIn = <<>>
    /\ simOut = <<>>
    /\ totals = << HeaderRow >>
    /\ emptyRead = "none"
    /\ totIn = <<>>
    /\ totOut = <<>>
    /\ totFirst = <<>>
    /\ members_ws = <<>>
    /\ clock = 0
    /\ batchIn = <<>>
    /\ batchOut = <<>>
    /\ memCache = [k \in MemberKeys |-> NoEntry]
    /\ dialogs = <<>>
    /\ user_data = <<>>
    /\ update = <<>>
    /\ imageIn = <<>>
    /\ imageOut = <<>>

RosterFrame ==
    /\ UNCHANGED <<today, exclusions, exclCache, ledger, posts, conv,
                   post_session, post_results, history, calcIn, calcOut,
                   matchIn, matchOut, simIn, simOut, clock, batchIn, batchOut>>
    /\ TotalsUnchanged
    /\ DialogUnchanged

\* db.add_member(username, join_date): validate_username and validate_date
\* are called and what they return is dropped
add_member(username, join_date) ==
    /\ Len(members_ws) < MaxMembers
    /\ members_ws' =
           Append(members_ws,
                  MemberRow(username,
                            IF join_date = << >>
                            THEN strftime(today)
                            ELSE join_date))
    /\ memCache' = clear_cache(memCache)
    /\ RosterFrame

\* db.update_member_status(username, status): the first row of the username
update_member_status(username, status) ==
    /\ LET found == { i \in DOMAIN members_ws :
                        members_ws[i].username = username }
       IN  IF found = {}
           THEN UNCHANGED <<members_ws, memCache>>
           ELSE LET i == CHOOSE k \in found : \A j \in found : k <= j
                IN  /\ members_ws' = [members_ws EXCEPT ![i].status = status]
                    /\ memCache' = clear_cache(memCache)
    /\ RosterFrame

NextRoster ==
    \/ \E username \in NameTexts, join_date \in JoinDates :
           add_member(username, join_date)
    \/ \E username \in NameTexts, status \in StatusTexts :
           update_member_status(username, status)

SpecRoster == InitRoster /\ [][NextRoster]_vars

(***************************************************************************)
(* The cached reads of GoogleSheetsDB next to its writes: get_members and  *)
(* get_exclusions, add_member, update_member_status and add_exclusion      *)
(* called in any order.  An entry that reaches its time to live is gone as *)
(* after a clear, which every write does, so it brings no state of its own.*)
(***************************************************************************)
\* the usernames the store is called with
StoreNames == { << "b" >>, << "B" >> }

\* db.get_members(), db.get_members(True), db.get_members(False)
GetMembers(key) ==
    /\ memCache' = MemCacheAfterGet(memCache, members_ws, key)
    /\ UNCHANGED members_ws
    /\ RosterFrame

\* db.get_exclusions(post_name)
GetExclusions(post_name) ==
    /\ exclCache' = CacheAfterGet(exclCache, exclusions, post_name)
    /\ DbUnchanged /\ CalcUnchanged
    /\ UNCHANGED <<today, conv, post_session, post_results>>

NextStore ==
    \/ \E username \in StoreNames : add_member(username, strftime(1))
    \/ \E username \in StoreNames, status \in StatusTexts :
           update_member_status(username, status)
    \/ \E key \in MemberKeys : GetMembers(key)
    \/ \E u \in Users, n \in ExclNames : AddExclusion(u, n)
    \/ \E n \in PostNames : GetExclusions(n)

SpecStore == InitRoster /\ [][NextStore]_vars

(***************************************************************************)
(* The add-member and the exclusion conversations of MatsuniBot, for one   *)
(* user.  A message is a sequence of symbols; a command is "/" followed    *)
(* by the symbol of its name.  The application offers a message to its     *)
(* handlers in the order they were added and the first that takes it       *)
(* handles it: add_member_conv comes before exclusion_conv.  A             *)
(* conversation offers a message to the handlers of its state first and to *)
(* its fallbacks after them; outside a conversation, to its entry points.  *)
(***************************************************************************)
AddMemberCmd == << "/", "add_member" >>
ExcludeCmd == << "/", "exclude" >>
CancelCmd == << "/", "cancel" >>
SkipCmd == << "/", "skip" >>

\* the messages the user sends
MsgTexts ==
    { AddMemberCmd, ExcludeCmd, CancelCmd, SkipCmd,
      << "a" >>, << "b" >>, strftime(1) }

\* filters.COMMAND
IsCommand(text) == text # << >> /\ text[1] = "/"

\* str.strip()
RECURSIVE strip(_)
strip(text) ==
    IF text # << >> /\ text[1] \in {" ", "\n"}
    THEN strip(Tail(text))
    ELSE IF text # << >> /\ text[Len(text)] \in {" ", "\n"}
    THEN strip(SubSeq(text, 1, Len(text) - 1))
    ELSE text

\* user_data without a temporary key (a key that is there holds << value >>)
NoKeys ==
    [ exclusion_post |-> << >>, exclusion_user |-> << >>, new_member |-> << >> ]

\* what add_member_conv takes in its state
AddMemberTakes(text) ==
    \/ dialogs.add_member_conv = "END" /\ text = AddMemberCmd
    \/ dialogs.add_member_conv = "ADD_MEMBER"
          /\ (~IsCommand(text) \/ text = CancelCmd)
    \/ dialogs.add_member_conv = "ADD_MEMBER_DATE"

\* what exclusion_conv takes in its state, when the message reaches it
ExclusionTakes(text) ==
    /\ ~AddMemberTakes(text)
    /\ \/ dialogs.exclusion_conv = "END" /\ text = ExcludeCmd
       \/ dialogs.exclusion_conv \in {"EXCLUSION_ADD", "EXCLUSION_POST"}
             /\ (~IsCommand(text) \/ text = CancelCmd)
       \/ dialogs.exclusion_conv = "EXCLUSION_REASON"

InitDialog ==
    /\ today = 1
    /\ exclusions = {}
    /\ exclCache = [n \in PostNames |-> NoEntry]
    /\ ledger = <<>>
    /\ posts = <<>>
    /\ conv = <<>>
    /\ post_session = <<>>
    /\ post_results = <<>>
    /\ history = <<>>
    /\ calcIn = <<>>
    /\ calcOut = <<>>
    /\ matchIn = <<>>
    /\ matchOut = <<>>
    /\ simIn = <<>>
    /\ simOut = <<>>
    /\ totals = << HeaderRow >>
    /\ emptyRead = "none"
    /\ totIn = <<>>
    /\ totOut = <<>>
    /\ totFirst = <<>>
    /\ members_ws = <<>>
    /\ clock = 0
    /\ batchIn = <<>>
    /\ batchOut = <<>>
    /\ memCache = [k \in MemberKeys |-> NoEntry]
    /\ dialogs = [add_member_conv |-> "END", exclusion_conv |-> "END"]
    /\ user_data = NoKeys
    /\ update = <<>>
    /\ imageIn = <<>>
    /\ imageOut = <<>>

\* what no handler of the two conversations touches
DialogFrame ==
    /\ UNCHANGED <<today, ledger, posts, conv, post_session, post_results,
                   history, calcIn, calcOut, matchIn, matchOut, simIn, simOut,
                   clock, batchIn, batchOut, imageIn, imageOut>>
    /\ TotalsUnchanged

StoreUnchanged == UNCHANGED <<members_ws, memCache, exclusions, exclCache>>

\* add_member_start
AddMemberStart(text) ==
    /\ dialogs.add_member_conv = "END" /\ text = AddMemberCmd
    /\ Len(members_ws) < MaxMembers
    /\ update' = text
    /\ dialogs' = [dialogs EXCEPT !.add_member_conv = "ADD_MEMBER"]
    /\ UNCHANGED user_data
    /\ StoreUnchanged /\ DialogFrame

\* add_member_process
AddMemberProcess(text) ==
    /\ dialogs.add_member_conv = "ADD_MEMBER" /\ ~IsCommand(text)
    /\ update' = text
    /\ IF validate_username(strip(text))
       THEN /\ user_data' = [user_data EXCEPT !.new_member = << strip(text) >>]
            /\ dialogs' = [dialogs EXCEPT !.add_member_conv = "ADD_MEMBER_DATE"]
       ELSE UNCHANGED <<user_data, dialogs>>
    /\ StoreUnchanged /\ DialogFrame

\* add_member_date: MessageHandler(filters.TEXT, ...) takes every text of
\* state ADD_MEMBER_DATE, a command too.  Without the key new_member the
\* handler raises KeyError and the state stays.
AddMemberDate(text) ==
    /\ dialogs.add_member_conv = "ADD_MEMBER_DATE"
    /\ update' = text
    /\ LET join_date == IF text = SkipCmd THEN strftime(today) ELSE strip(text)
       IN  IF (text # SkipCmd /\ ~validate_date(join_date))
              \/ user_data.new_member = << >>
           THEN UNCHANGED <<user_data, dialogs, members_ws, memCache>>
           ELSE /\ members_ws' =
                       Append(members_ws,
                              MemberRow(user_data.new_member[1], join_date))
                /\ memCache' = clear_cache(memCache)
                /\ user_data' = [user_data EXCEPT !.new_member = << >>]
                /\ dialogs' = [dialogs EXCEPT !.add_member_conv = "END"]
    /\ UNCHANGED <<exclusions, exclCache>>
    /\ DialogFrame

\* cancel, as the fallback of add_member_conv
AddMemberCancel(text) ==
    /\ dialogs.add_member_conv = "ADD_MEMBER" /\ text = CancelCmd
    /\ update' = text
    /\ user_data' = NoKeys
    /\ dialogs' = [dialogs EXCEPT !.add_member_conv = "END"]
    /\ StoreUnchanged /\ DialogFrame

\* add_exclusion_start
AddExclusionStart(text) ==
    /\ ~AddMemberTakes(text)
    /\ dialogs.exclusion_conv = "END" /\ text = ExcludeCmd
    /\ Cardinality(exclusions) < MaxExcl
    /\ update' = text
    /\ dialogs' = [dialogs EXCEPT !.exclusion_conv = "EXCLUSION_ADD"]
    /\ UNCHANGED user_data
    /\ StoreUnchanged /\ DialogFrame

\* process_exclusion_username
ProcessExclusionUsername(text) ==
    /\ ~AddMemberTakes(text)
    /\ dialogs.exclusion_conv = "EXCLUSION_ADD" /\ ~IsCommand(text)
    /\ update' = text
    /\ LET got == get_members(memCache, members_ws, << >>)
           members == { got[i].username : i \in DOMAIN got }
       IN  IF strip(text) \notin members
           THEN UNCHANGED <<user_data, dialogs>>
           ELSE /\ user_data' =
                       [user_data EXCEPT !.exclusion_user = << strip(text) >>]
                /\ dialogs' =
                       [dialogs EXCEPT !.exclusion_conv = "EXCLUSION_POST"]
    /\ memCache' = MemCacheAfterGet(memCache, members_ws, << >>)
    /\ UNCHANGED <<members_ws, exclusions, exclCache>>
    /\ DialogFrame

\* process_exclusion_post
ProcessExclusionPost(text) ==
    /\ ~AddMemberTakes(text)
    /\ dialogs.exclusion_conv = "EXCLUSION_POST" /\ ~IsCommand(text)
    /\ update' = text
    /\ user_data' = [user_data EXCEPT !.exclusion_post = << strip(text) >>]
    /\ dialogs' = [dialogs EXCEPT !.exclusion_conv = "EXCLUSION_REASON"]
    /\ StoreUnchanged /\ DialogFrame

\* process_exclusion_reason: MessageHandler(filters.TEXT, ...) takes every
\* text of state EXCLUSION_REASON, a command too, as the reason.  Without
\* its keys the handler raises KeyError and the state stays.
ProcessExclusionReason(text) ==
    /\ ~AddMemberTakes(text)
    /\ dialogs.exclusion_conv = "EXCLUSION_REASON"
    /\ update' = text
    /\ IF user_data.exclusion_user = << >> \/ user_data.exclusion_post = << >>
       THEN UNCHANGED <<user_data, dialogs, exclusions, exclCache>>
       ELSE /\ exclusions' = exclusions \cup
                   { ExclusionRow(user_data.exclusion_user[1],
                                  user_data.exclusion_post[1], TRUE) }
            /\ exclCache' = clear_cache(exclCache)
            /\ user_data' = [user_data EXCEPT !.exclusion_user = << >>,
                                              !.exclusion_post = << >>]
            /\ dialogs' = [dialogs EXCEPT !.exclusion_conv = "END"]
    /\ UNCHANGED <<members_ws, memCache>>
    /\ DialogFrame

\* cancel, as the fallback of exclusion_conv
ExclusionCancel(text) ==
    /\ ~AddMemberTakes(text)
    /\ dialogs.exclusion_conv \in {"EXCLUSION_ADD", "EXCLUSION_POST"}
    /\ text = CancelCmd
    /\ update' = text
    /\ user_data' = NoKeys
    /\ dialogs' = [dialogs EXCEPT !.exclusion_conv = "END"]
    /\ StoreUnchanged /\ DialogFrame

NextDialog ==
    \/ \E text \in MsgTexts : AddMemberStart(text)
    \/ \E text \in MsgTexts : AddMemberProcess(text)
    \/ \E text \in MsgTexts : AddMemberDate(text)
    \/ \E text \in MsgTexts : AddMemberCancel(text)
    \/ \E text \in MsgTexts : AddExclusionStart(text)
    \/ \E text \in MsgTexts : ProcessExclusionUsername(text)
    \/ \E text \in MsgTexts : ProcessExclusionPost(text)
    \/ \E text \in MsgTexts : ProcessExclusionReason(text)
    \/ \E text \in MsgTexts : ExclusionCancel(text)

SpecDialog == InitDialog /\ [][NextDialog]_vars

(***************************************************************************)
(* ImageProcessor.batch_process_images.  The unit of an image is the call  *)
(* of _process_single_image the executor runs for it.  What the image      *)
(* shows and how long its unit runs are inputs: `matched` are the members  *)
(* find_usernames finds in its text, `finish` the seconds from the         *)
(* submission of the unit to its end (a batch has at most max_workers = 4  *)
(* images, so every unit starts when it is submitted).  In a unit with     *)
(* failure "text" the recognition raises inside extract_text, which        *)
(* catches the exception and returns ''; in a unit with failure "raise"    *)
(* _process_single_image raises.                                           *)
(***************************************************************************)
MaxImages == 2

\* future.result(timeout=30)
timeout == 30

\* a unit that ends well within the timeout, and one that does not
FinishTimes == {10, 45}

Units ==
    { [failure |-> "none", finish |-> t, is_comments |-> c, matched |-> m] :
        t \in FinishTimes, c \in BOOLEAN, m \in SUBSET Users }
    \cup { [failure |-> f, finish |-> t, is_comments |-> FALSE, matched |-> {}] :
             f \in {"text", "raise"}, t \in FinishTimes }
Batches == UNION { [1..n -> Units] : n \in 0..MaxImages }

\* results before the first future is collected
NoResults == [comments |-> {}, errors |-> << >>, likes |-> {}]

\* a variant of Collect that gives up at the first unit that fails
RECURSIVE CollectAbort(_, _, _)
CollectAbort(futures, now, results) ==
    IF futures = << >>
    THEN results
    ELSE LET unit == Head(futures)
             done == unit.finish <= now + timeout
         IN  IF done /\ unit.failure # "raise"
             THEN CollectAbort(Tail(futures), Max(now, unit.finish),
                      [ comments |-> results.comments \cup ImageComments(unit),
                        errors   |-> results.errors,
                        likes    |-> results.likes \cup ImageLikes(unit) ])
             ELSE [ comments |-> results.comments,
                    errors   |-> Append(results.errors,
                                        IF done THEN "exception" ELSE "timeout"),
                    likes    |-> results.likes ]

\* the loop `for future in futures`, reached `now` seconds after the
\* submission: future.result waits until the unit ends, for at most
\* `timeout` seconds from now
RECURSIVE Collect(_, _, _)
Collect(futures, now, results) ==
    IF futures = << >>
    THEN results
    ELSE LET unit == Head(futures)
             done == unit.finish <= now + timeout
         IN  IF done /\ unit.failure # "raise"
             THEN Collect(Tail(futures), Max(now, unit.finish),
                      [ comments |-> results.comments \cup ImageComments(unit),
                        errors   |-> results.errors,
                        likes    |-> results.likes \cup ImageLikes(unit) ])
             ELSE Collect(Tail(futures),
                      IF done THEN Max(now, unit.finish) ELSE now + timeout,
                      [ comments |-> results.comments,
                        errors   |-> Append(results.errors,
                                            IF done THEN "exception" ELSE "timeout"),
                        likes    |-> results.likes ])

\* batch_process_images(images, members_list)
batch_process_images(images) == Collect(images, 0, NoResults)

InitBatch ==
    /\ today = 1
    /\ exclusions = {}
    /\ exclCache = [n \in PostNames |-> NoEntry]
    /\ ledger = <<>>
    /\ posts = <<>>
    /\ conv = <<>>
    /\ post_session = <<>>
    /\ post_results = <<>>
    /\ history = <<>>
    /\ calcIn = <<>>
    /\ calcOut = <<>>
    /\ matchIn = <<>>
    /\ matchOut = <<>>
    /\ simIn = <<>>
    /\ simOut = <<>>
    /\ totals = << HeaderRow >>
    /\ emptyRead = "none"
    /\ totIn = <<>>
    /\ totOut = <<>>
    /\ totFirst = <<>>
    /\ members_ws = Roster
    /\ clock = 0
    /\ batchIn = <<>>
    /\ batchOut = <<>>
    /\ memCache = [k \in MemberKeys |-> NoEntry]
    /\ dialogs = <<>>
    /\ user_data = <<>>
    /\ update = <<>>
    /\ imageIn = <<>>
    /\ imageOut = <<>>

\* image_processor.batch_process_images(images, members)
BatchCall(images) ==
    /\ batchIn = <<>>
    /\ batchIn' = << images >>
    /\ batchOut' = batch_process_images(images)
    /\ UNCHANGED <<today, exclusions, exclCache, ledger, posts, conv,
                   post_session, post_results, history, calcIn, calcOut,
                   matchIn, matchOut, simIn, simOut, members_ws, clock,
                   memCache>>
    /\ TotalsUnchanged
    /\ DialogUnchanged

NextBatch ==
    /\ batchIn = <<>>
    /\ \E images \in Batches : BatchCall(images)

SpecBatch == InitBatch /\ [][NextBatch]_vars

(***************************************************************************)
(* A photo in the likes step or the comments step of the new-post          *)
(* conversation: extract_text, _clean_text and _process_single_image on    *)
(* the text the recognition gave for the photo.  "otvetil" is the symbol   *)
(* of the marker word 'ответил', which is outside the class [a-zA-Z0-9_.]. *)
(* The texts of the model hold no letters of the marker word 'comment'.    *)
(***************************************************************************)
MaxRecognized == 3

Otvetil == "otvetil"
MarkerWords == { Otvetil }

RecognizedChars == {"@", " ", "b", "0", "1", "v", "r", "n", Otvetil}
RecognizedTexts ==
    UNION { [1..n -> RecognizedChars] : n \in 0..MaxRecognized }

\* the rosters of the session: usernames with and without the characters
\* _clean_text rewrites
ImageRosters ==
    { << << "b" >> >>,
      << << "b", "1" >> >>,
      << << "b", "0" >> >>,
      << << "v", "v" >> >>,
      << << "r", "n" >> >>,
      << << "b" >>, << "n" >> >> }

\* ' '.join(text.split())
RECURSIVE JoinSplit(_)
JoinSplit(text) ==
    IF text = << >> THEN << >>
    ELSE IF Head(text) = " "
    THEN JoinSplit(Tail(text))
    ELSE LET word == CHOOSE k \in 1..Len(text) :
                        /\ \A j \in 1..k : text[j] # " "
                        /\ (k < Len(text) => text[k + 1] = " ")
             rest == JoinSplit(SubSeq(text, word + 1, Len(text)))
         IN  SubSeq(text, 1, word)
             \o (IF rest = << >> THEN << >> ELSE << " " >> \o rest)

\* text.replace(wrong, correct): from the left, without overlap
RECURSIVE replace(_, _, _)
replace(text, wrong, correct) ==
    IF Len(text) < Len(wrong) THEN text
    ELSE IF SubSeq(text, 1, Len(wrong)) = wrong
    THEN correct \o replace(SubSeq(text, Len(wrong) + 1, Len(text)),
                            wrong, correct)
    ELSE << Head(text) >> \o replace(Tail(text), wrong, correct)

\* ImageProcessor._clean_text(text): the corrections in the order of the dict
_clean_text(text) ==
    replace(replace(replace(replace(replace(JoinSplit(text),
        << "@", "5" >>, << "@", "s" >>),
        << "1" >>, << "l" >>),
        << "0" >>, << "o" >>),
        << "v", "v" >>, << "w" >>),
        << "r", "n" >>, << "m" >>)

\* ImageProcessor.extract_text, from the text the recognition gave
extract_text(recognized) == lower(_clean_text(recognized))

\* any(word in text for word in [...])
IsComments(text) == \E k \in DOMAIN text : text[k] \in MarkerWords

\* a variant of _process_single_image that gives the usernames to both lists
ProcessBothLists(recognized, members_list) ==
    LET text == extract_text(recognized)
        found_usernames == find_usernames(text, members_list, Fraction(4, 5))
        names == [ k \in DOMAIN found_usernames |-> found_usernames[k][1] ]
    IN  [ comments        |-> names,
          found_usernames |-> found_usernames,
          likes           |-> names ]

\* ImageProcessor._process_single_image(image_bytes, members_list)
_process_single_image(recognized, members_list) ==
    LET text == extract_text(recognized)
        is_comments == IsComments(text)
        found_usernames == find_usernames(text, members_list, Fraction(4, 5))
        names == [ k \in DOMAIN found_usernames |-> found_usernames[k][1] ]
    IN  [ comments        |-> IF is_comments THEN names ELSE << >>,
          found_usernames |-> found_usernames,
          likes           |-> IF ~is_comments THEN names ELSE << >> ]

\* set(list)
SetOf(list) == { list[k] : k \in DOMAIN list }

\* the session of one operator in the likes step, for a roster
InitImage ==
    /\ today = 1
    /\ exclusions = {}
    /\ exclCache = [n \in PostNames |-> NoEntry]
    /\ ledger = <<>>
    /\ posts = <<>>
    /\ conv = [op \in {"op1"} |-> "POST_LIKES"]
    /\ \E members \in ImageRosters :
          post_session =
              [op \in {"op1"} |->
                  << [ date |-> 1, found_comments |-> {}, found_likes |-> {},
                       members_to_check |-> members, name |-> "vibro" ] >>]
    /\ post_results = [op \in {"op1"} |-> <<>>]
    /\ history = <<>>
    /\ calcIn = <<>>
    /\ calcOut = <<>>
    /\ matchIn = <<>>
    /\ matchOut = <<>>
    /\ simIn = <<>>
    /\ simOut = <<>>
    /\ totals = << HeaderRow >>
    /\ emptyRead = "none"
    /\ totIn = <<>>
    /\ totOut = <<>>
    /\ totFirst = <<>>
    /\ members_ws = Roster
    /\ clock = 0
    /\ batchIn = <<>>
    /\ batchOut = <<>>
    /\ memCache = [k \in MemberKeys |-> NoEntry]
    /\ dialogs = <<>>
    /\ user_data = <<>>
    /\ update = <<>>
    /\ imageIn = <<>>
    /\ imageOut = <<>>

ImageFrame ==
    /\ DbUnchanged
    /\ UNCHANGED <<today, exclCache, post_results, conv, calcIn, calcOut,
                   matchIn, matchOut, simIn, simOut, members_ws, clock,
                   batchIn, batchOut, dialogs, user_data, update>>
    /\ TotalsUnchanged

\* the photos a step may get: a behaviour has one photo
PhotoChoices == IF imageIn = <<>> THEN RecognizedTexts ELSE {}

\* process_likes_images, on a photo with this text
LikesPhotoText(op, recognized) ==
    /\ conv[op] = "POST_LIKES"
    /\ \E result \in { _process_single_image(recognized,
                           post_session[op][1].members_to_check) } :
          /\ post_session' = [post_session EXCEPT
                 ![op][1].found_likes = @ \cup SetOf(result.likes)]
          /\ imageOut' = result
    /\ imageIn' = << recognized >>
    /\ ImageFrame

\* process_comments_images, on a photo with this text
CommentsPhotoText(op, recognized) ==
    /\ conv[op] = "POST_COMMENTS"
    /\ \E result \in { _process_single_image(recognized,
                           post_session[op][1].members_to_check) } :
          /\ post_session' = [post_session EXCEPT
                 ![op][1].found_comments = @ \cup SetOf(result.comments)]
          /\ imageOut' = result
    /\ imageIn' = << recognized >>
    /\ ImageFrame

NextImage ==
    \/ \E op \in Operators, recognized \in PhotoChoices :
          LikesPhotoText(op, recognized)
    \/ \E op \in Operators : LikesFinish(op)
    \/ \E op \in Operators, recognized \in PhotoChoices :
          CommentsPhotoText(op, recognized)

SpecImage == InitImage /\ [][NextImage]_vars

(***************************************************************************)
(* Properties of the scoring engine.                                       *)
(***************************************************************************)
\* points in a ledger for a member, over the rows of posts dated `date`
PostDateTotal(led, username, date) ==
    SumMatsuni(SelectSeq(led, LAMBDA row :
        row.username = username /\ row.post_id.date = date))

\* points in a ledger for a member, over the rows checked (saved) on `day`
CheckDayTotal(led, username, day) ==
    SumMatsuni(SelectSeq(led, LAMBDA row :
        row.username = username /\ row.check = day))

\* the members with an active exclusion of exactly this post name
ExcludedFor(sheet, post_name) ==
    { row.username : row \in { x \in sheet : x.active /\ x.post_name = post_name } }

\* the members with an active wildcard exclusion
ExcludedForAll(sheet) ==
    { row.username : row \in { x \in sheet : x.active /\ x.post_name = Wildcard } }

Usernames(records) == { records[i].username : i \in DOMAIN records }

SavedRows(h) == { ledger[k].username : k \in h.first_row..h.last_row }

\* the members a saved post gave points to
Awarded(h) ==
    { ledger[k].username :
        k \in { n \in h.first_row..h.last_row : ledger[n].matsuni > 0 } }

\* C1: for every member and every date, the points of all ledger entries of
\* posts of that date sum to at most max_per_day (posts scored and saved one
\* after another, by one operator).
C1_DailyCapPerPostDate ==
    \A u \in Users, d \in Days : PostDateTotal(ledger, u, d) <= max_per_day

\* two saved posts of one date that gave points to a common member: the later
\* one was scored after the earlier one was saved
ScoringSerialized ==
    \A i, j \in DOMAIN history :
        ( /\ i < j
          /\ history[i].post_data.date = history[j].post_data.date
          /\ Awarded(history[i]) \cap Awarded(history[j]) # {} )
        => history[j].scored_at >= i

\* every saved post of date d was saved on day d itself
SavedOnPostDate(d) ==
    \A i \in DOMAIN history :
        history[i].post_data.date = d => history[i].saved_on = d

\* C2: with two operator sessions, two posts of one date that affect the same
\* member are never both scored against the same ledger and then both saved,
\* so the daily cap of that member and date holds after both saves (dates
\* whose posts were all saved on the date itself).
C2_ScoringSerialized ==
    /\ ScoringSerialized
    /\ \A u \in Users, d \in Days :
          SavedOnPostDate(d) => PostDateTotal(ledger, u, d) <= max_per_day

\* C3: when a post dated D is scored, the prior total the daily-cap check
\* uses for a member is the sum of the points already in the ledger for that
\* member's posts dated D, whatever the day those posts were saved on.
C3_PriorIsPostDateTotal ==
    \A op \in Operators :
        post_results[op] # <<>> =>
            LET pr == post_results[op][1]
                snap == SubSeq(ledger, 1, pr.scored_len)
            IN  \A i \in DOMAIN pr.results :
                    DailyTotal(snap, pr.results[i].username, pr.post_data.date)
                        = PostDateTotal(snap, pr.results[i].username,
                                        pr.post_data.date)

\* C4: a member with an active exclusion whose post name is the name of the
\* post being scored is absent from what calculate_for_post returns, and no
\* ledger row of that post is written for the member when it is saved.
C4_ExcludedAbsent ==
    /\ calcIn # <<>> =>
          Usernames(calcOut) \cap
              ExcludedFor(exclusions, calcIn[1].post_data.name) = {}
    /\ \A op \in Operators :
          post_results[op] # <<>> =>
              Usernames(post_results[op][1].results) \cap
                  ExcludedFor(post_results[op][1].excluded_at,
                              post_results[op][1].post_data.name) = {}
    /\ \A i \in DOMAIN history :
          SavedRows(history[i]) \cap
              ExcludedFor(history[i].excluded_at, history[i].post_data.name) = {}

\* an excluded member was in the list scored, and the rest was saved
C4_Witness ==
    /\ calcIn # <<>>
    /\ history # <<>>
    /\ Usernames(calcIn[1].activities) \cap
           ExcludedFor(exclusions, calcIn[1].post_data.name) # {}
    /\ history[1].last_row >= history[1].first_row

\* C5: a member with an active exclusion of post name "all" is absent from
\* what calculate_for_post returns for a post of any name.
C5_WildcardExcluded ==
    /\ calcIn # <<>> =>
          Usernames(calcOut) \cap ExcludedForAll(exclusions) = {}
    /\ \A op \in Operators :
          post_results[op] # <<>> =>
              Usernames(post_results[op][1].results) \cap
                  ExcludedForAll(post_results[op][1].excluded_at) = {}

\* the ledger as it was when the direct call was made
LedgerAtCall ==
    IF history = <<>> THEN ledger ELSE SubSeq(ledger, 1, history[1].scored_len)

\* excluded in the sense of the specification: by post name or by wildcard
ExcludedAtCall ==
    ExcludedFor(exclusions, calcIn[1].post_data.name) \cup ExcludedForAll(exclusions)

Flags(r) ==
    [has_comment |-> r.has_comment, has_like |-> r.has_like, username |-> r.username]

\* C6: the records returned for the members that are not excluded are, in
\* input order, exactly the input activities of those members, one each; a
\* record with no like and no comment, and one clamped to zero, are present
\* with matsuni = 0.
C6_OneRecordPerKeptActivity ==
    calcIn # <<>> =>
        LET keptIn == SelectSeq(calcIn[1].activities,
                                LAMBDA a : a.username \notin ExcludedAtCall)
            keptOut == SelectSeq(calcOut,
                                 LAMBDA r : r.username \notin ExcludedAtCall)
        IN  /\ Len(keptOut) = Len(keptIn)
            /\ \A i \in DOMAIN keptOut :
                  /\ Flags(keptOut[i]) = Flags(keptIn[i])
                  /\ keptOut[i].matsuni \in Nat
                  /\ (~keptIn[i].has_like /\ ~keptIn[i].has_comment)
                        => keptOut[i].matsuni = 0

\* a call that returned a record without activity and a record clamped to zero
C6_Witness ==
    /\ calcIn # <<>>
    /\ \E i, j \in DOMAIN calcOut :
          /\ ~calcOut[i].has_like /\ ~calcOut[i].has_comment
          /\ calcOut[i].matsuni = 0
          /\ calcOut[j].has_like
          /\ calcOut[j].matsuni = 0

\* C7: where the daily cap does not bind (nothing in the ledger for the
\* member on that date) the points are 2 with a comment, with or without a
\* like, 1 with a like only, 0 with neither; like and comment together never
\* give the sum of the two scores.
C7_RawPoints ==
    calcIn # <<>> =>
        \A i \in DOMAIN calcOut :
            LET r == calcOut[i]
                prior == CheckDayTotal(LedgerAtCall, r.username,
                                       calcIn[1].post_data.date)
            IN  /\ prior = 0 =>
                      r.matsuni = IF r.has_comment THEN 2
                                  ELSE IF r.has_like THEN 1 ELSE 0
                /\ (r.has_like /\ r.has_comment) => r.matsuni # 1 + 2

\* a member who liked and commented, with nothing in the ledger, got 2
C7_Witness ==
    /\ calcIn # <<>>
    /\ \E i \in DOMAIN calcOut :
          /\ calcOut[i].has_like /\ calcOut[i].has_comment
          /\ calcOut[i].matsuni = 2
          /\ CheckDayTotal(LedgerAtCall, calcOut[i].username,
                           calcIn[1].post_data.date) = 0

\* C8: the points awarded are min(raw, max(0, max_per_day - prior_total)),
\* prior_total being the member's points in the ledger rows of that date; so
\* they are an integer from 0 to the raw score, and 0 for a like when the
\* member already has 2 points that day.
C8_ClampedAward ==
    calcIn # <<>> =>
        \A i \in DOMAIN calcOut :
            LET r == calcOut[i]
                raw == IF r.has_comment THEN 2 ELSE IF r.has_like THEN 1 ELSE 0
                prior == CheckDayTotal(LedgerAtCall, r.username,
                                       calcIn[1].post_data.date)
            IN  /\ r.matsuni = Min(raw, Max(0, 2 - prior))
                /\ r.matsuni \in 0..raw
                /\ (prior >= 2 /\ r.has_like /\ ~r.has_comment) => r.matsuni = 0

\* a like of a member who already has 2 points that day, and one of a member
\* who has more than the cap
C8_Witness ==
    /\ calcIn # <<>>
    /\ \E i \in DOMAIN calcOut :
          /\ calcOut[i].has_like /\ ~calcOut[i].has_comment
          /\ calcOut[i].matsuni = 0
          /\ CheckDayTotal(LedgerAtCall, calcOut[i].username,
                           calcIn[1].post_data.date) = 2

\* C9: an activity record without a username gets no scored result (it is
\* rejected for that record only and reported as skipped).
C9_MissingUsernameRejected ==
    calcIn # <<>> => NoUsername \notin Usernames(calcOut)

(***************************************************************************)
(* Properties of the identity matcher.                                     *)
(***************************************************************************)
\* the list `found` of the call made
FoundAtCall ==
    FoundList(findall(matchIn[1].text, 1), matchIn[1].members_list,
              matchIn[1].min_confidence)

\* C10: for every text, roster and min_confidence, every pair find_usernames
\* returns has a confidence of at least min_confidence, and no roster
\* username is in the returned list more than once.
C10_ConfidentAndUnique ==
    matchIn # <<>> =>
        /\ \A i \in DOMAIN matchOut :
              Geq(matchOut[i][2], matchIn[1].min_confidence)
        /\ \A i, j \in DOMAIN matchOut :
              matchOut[i][1] = matchOut[j][1] => i = j

\* a call with a positive threshold where some token-member pair fell below
\* the threshold and was left out, two tokens matched the same member, and
\* that member is returned
C10_Witness ==
    /\ matchIn # <<>>
    /\ Gt(matchIn[1].min_confidence, Fraction(0, 1))
    /\ Len(FoundAtCall) < Len(findall(matchIn[1].text, 1))
                            * Len(matchIn[1].members_list)
    /\ \E i, j \in DOMAIN FoundAtCall :
          /\ i < j
          /\ FoundAtCall[i][1] = FoundAtCall[j][1]
          /\ \E k \in DOMAIN matchOut : matchOut[k][1] = FoundAtCall[j][1]

\* the tokens of the call made
MatchesAtCall == findall(matchIn[1].text, 1)

\* the similarities of a member to the tokens
Similarities(matches, member) ==
    { _calculate_similarity(lower(matches[k]), lower(member)) :
        k \in DOMAIN matches }

\* the position of the first pair of `found` that names the member
FirstFound(found, member) ==
    CHOOSE i \in DOMAIN found :
        /\ found[i][1] = member
        /\ \A j \in 1..(i - 1) : found[j][1] # member

\* C11: the list find_usernames returns is in descending order of
\* confidence; the confidence of a returned member is the largest similarity
\* of that member to any extracted token; of two returned members with the
\* same confidence, the one whose first kept pair came first is first.
C11_SortedMaxStable ==
    matchIn # <<>> =>
        LET matches == MatchesAtCall
            found == FoundAtCall
        IN  /\ \A i, j \in DOMAIN matchOut :
                  i < j => Geq(matchOut[i][2], matchOut[j][2])
            /\ \A i \in DOMAIN matchOut :
                  LET sims == Similarities(matches, matchOut[i][1])
                  IN  /\ matchOut[i][2] \in sims
                      /\ \A c \in sims : Geq(matchOut[i][2], c)
            /\ \A i, j \in DOMAIN matchOut :
                  (i < j /\ matchOut[i][2] = matchOut[j][2])
                      => FirstFound(found, matchOut[i][1])
                           < FirstFound(found, matchOut[j][1])

\* a call that returns three members: two with the same confidence, in the
\* order of their first kept pairs, which is not the order of the roster,
\* then one with a smaller confidence whose first kept pair came before the
\* second member's; the first member's confidence is above its similarity to
\* another token
C11_Witness ==
    /\ matchIn # <<>>
    /\ Len(matchOut) = 3
    /\ matchOut[1][2] = matchOut[2][2]
    /\ Gt(matchOut[2][2], matchOut[3][2])
    /\ FirstFound(FoundAtCall, matchOut[3][1])
          < FirstFound(FoundAtCall, matchOut[2][1])
    /\ \E m, n \in DOMAIN matchIn[1].members_list :
          /\ m < n
          /\ matchIn[1].members_list[n] = matchOut[1][1]
          /\ matchIn[1].members_list[m] = matchOut[2][1]
    /\ \E c \in Similarities(MatchesAtCall, matchOut[1][1]) :
          Gt(matchOut[1][2], c)

\* the text holds, at position i, "@" and the name, and the name ends there:
\* the end of the text or a character outside [a-zA-Z0-9_.] follows
HandleAt(text, i, name) ==
    /\ name # << >>
    /\ i + Len(name) <= Len(text)
    /\ text[i] = "@"
    /\ SubSeq(text, i + 1, i + Len(name)) = name
    /\ (i + Len(name) < Len(text) => text[i + Len(name) + 1] \notin WordChars)

\* the members of a returned list
Returned(out) == { out[k][1] : k \in DOMAIN out }

\* C14: when the text holds the handle "@m" of a roster member m,
\* find_usernames returns (m, 1.0); a roster member whose similarity to every
\* extracted token is below min_confidence is not returned; an empty text
\* gives an empty list.  By the second part a member is returned with 1.0
\* only under a min_confidence of at most 1.0.
C14_HandleFound ==
    matchIn # <<>> =>
        LET text == matchIn[1].text
            members_list == matchIn[1].members_list
            min_confidence == matchIn[1].min_confidence
            matches == MatchesAtCall
        IN  /\ \A n \in DOMAIN members_list, i \in DOMAIN text :
                  ( /\ HandleAt(text, i, members_list[n])
                    /\ Geq(Fraction(1, 1), min_confidence) )
                  => \E k \in DOMAIN matchOut :
                        matchOut[k] = << members_list[n], Fraction(1, 1) >>
            /\ \A n \in DOMAIN members_list :
                  (\A c \in Similarities(matches, members_list[n]) :
                        ~Geq(c, min_confidence))
                  => members_list[n] \notin Returned(matchOut)
            /\ (text = << >> => matchOut = << >>)

\* the scenario of the claim: min_confidence 0.8, a roster of several
\* members, a text that starts with the handle of one of them followed by a
\* space and more text; that member is returned with 1.0 and another member,
\* below the threshold for every token, is not returned
C14_Witness ==
    /\ matchIn # <<>>
    /\ matchIn[1].min_confidence = Fraction(4, 5)
    /\ Len(matchIn[1].text) > 3
    /\ \E n, o \in DOMAIN matchIn[1].members_list :
          /\ HandleAt(matchIn[1].text, 1, matchIn[1].members_list[n])
          /\ matchIn[1].text[Len(matchIn[1].members_list[n]) + 2] = " "
          /\ matchOut[1] = << matchIn[1].members_list[n], Fraction(1, 1) >>
          /\ matchIn[1].members_list[o] \notin Returned(matchOut)

\* min_confidence brought into [0, 1]
Clamped(min_confidence) ==
    IF Gt(Fraction(0, 1), min_confidence) THEN Fraction(0, 1)
    ELSE IF Gt(min_confidence, Fraction(1, 1)) THEN Fraction(1, 1)
    ELSE min_confidence

\* C15: a min_confidence outside [0, 1] is rejected or brought into [0, 1]
\* before matching, so it never changes which members are returned.
\* find_usernames has no way to reject a call (it returns a list), so the
\* list it returns is the list for the value brought into [0, 1].
C15_ConfidenceInRange ==
    matchIn # <<>> =>
        matchOut = find_usernames(matchIn[1].text, matchIn[1].members_list,
                                  Clamped(matchIn[1].min_confidence))

(***************************************************************************)
(* Properties of the similarity score.                                     *)
(***************************************************************************)
\* the two strings _calculate_similarity was given in the call made
SimArgs ==
    IF simIn[1] = "find_usernames"
    THEN << lower(simIn[2]), lower(simIn[3]) >>
    ELSE << simIn[2], simIn[3] >>

\* C12: the similarity score is symmetric: _calculate_similarity(a, b)
\* equals _calculate_similarity(b, a) for all strings a and b.
C12_Symmetric ==
    simIn # <<>> =>
        simOut = _calculate_similarity(SimArgs[2], SimArgs[1])

\* a call with strings of different lengths, neither a part of the other,
\* whose score lies strictly between 0 and 1
C12_Witness ==
    /\ simIn # <<>>
    /\ simIn[1] = "_calculate_similarity"
    /\ Len(simIn[2]) < Len(simIn[3])
    /\ simOut # Fraction(9, 10)
    /\ Gt(simOut, Fraction(0, 1))
    /\ Gt(Fraction(1, 1), simOut)

\* x holds y as a run of consecutive characters
Contains(x, y) ==
    \E i \in 1..(Len(x) + 1), j \in 0..Len(x) : SubSeq(x, i, j) = y

\* the strings one insertion, deletion or substitution away from s
OneEdit(s, alphabet) ==
    { SubSeq(s, 1, i - 1) \o SubSeq(s, i + 1, Len(s)) : i \in DOMAIN s }
    \cup { [s EXCEPT ![i] = c] : i \in DOMAIN s, c \in alphabet }
    \cup { SubSeq(s, 1, i) \o << c >> \o SubSeq(s, i + 1, Len(s)) :
             i \in 0..Len(s), c \in alphabet }

\* the least number of edits that turn a string of `frontier` (strings k
\* edits away from the start) into y; a least sequence of edits needs no
\* character outside the two strings and no string longer than the longer
RECURSIVE EditSearch(_, _, _, _, _, _)
EditSearch(frontier, seen, k, y, alphabet, max_len) ==
    IF y \in frontier
    THEN k
    ELSE LET near == UNION { OneEdit(s, alphabet) : s \in frontier }
             next == { s \in near : Len(s) <= max_len /\ s \notin seen }
         IN  EditSearch(next, seen \cup next, k + 1, y, alphabet, max_len)

\* the Levenshtein distance of x and y
EditDistance(x, y) ==
    EditSearch({x}, {x}, 0, y,
               { x[i] : i \in DOMAIN x } \cup { y[i] : i \in DOMAIN y },
               Max(Len(x), Len(y)))

\* C13: for a token and a member compared without regard to case, the score
\* is 1 when they are equal, otherwise 9/10 when one is a part of the other,
\* otherwise 1 - d / max(len(token), len(member)) with d their Levenshtein
\* distance; the score is never below 0 or above 1.
C13_SimilarityValue ==
    (simIn # <<>> /\ simIn[1] = "find_usernames") =>
        LET token == lower(simIn[2])
            member == lower(simIn[3])
            max_len == Max(Len(token), Len(member))
        IN  /\ simOut =
                  IF token = member
                  THEN Fraction(1, 1)
                  ELSE IF Contains(token, member) \/ Contains(member, token)
                  THEN Fraction(9, 10)
                  ELSE Fraction(max_len - EditDistance(token, member), max_len)
            /\ Geq(simOut, Fraction(0, 1))
            /\ Geq(Fraction(1, 1), simOut)

\* a token and a member that differ, neither a part of the other, with a
\* score strictly between 0 and 1 that is not the score of the two strings
\* as they are written
C13_Witness ==
    /\ simIn # <<>>
    /\ simIn[1] = "find_usernames"
    /\ simOut # Fraction(9, 10)
    /\ Gt(simOut, Fraction(0, 1))
    /\ Gt(Fraction(1, 1), simOut)
    /\ simOut # _calculate_similarity(simIn[2], simIn[3])

(***************************************************************************)
(* Properties of the period totals.                                        *)
(***************************************************************************)
\* the day a date text names
DayOf(date_str) == strptime(date_str)[1]

\* the ledger rows checked on a day of the period, both ends included
InPeriod(data, start_date, end_date) ==
    SelectSeq(data, LAMBDA row :
        /\ DayOf(start_date) <= row.check
        /\ row.check <= DayOf(end_date))

\* the report of a call that returned
Returns == totIn # <<>> /\ totOut[1] = "ok"

\* a call for a period of two dates validate_date accepts
ValidPeriod ==
    totIn # <<>> /\ validate_date(totIn[2]) /\ validate_date(totIn[3])

\* C16: calculate_totals counts a ledger entry if and only if its date is a
\* day from start_date to end_date, both ends included: the entries of the
\* first and of the last day are counted, the entries of the day before and
\* of the day after are not.
C16_CountsInclusiveRange ==
    ValidPeriod => totOut[3] = InPeriod(ledger, totIn[2], totIn[3])

\* the usernames of a list of ledger rows
NamesIn(rows) == { rows[i].username : i \in DOMAIN rows }

\* the rows of the usernames sheet 'Участники' holds
OfMembers(rows) ==
    SelectSeq(rows, LAMBDA row :
        \E i \in DOMAIN Roster : Roster[i].username = row.username)

\* the ledger rows of one username
RowsOf(rows, username) == SelectSeq(rows, LAMBDA row : row.username = username)

\* C17: the per-member list holds exactly one record for each member with
\* an entry in the period and none for the other members; days_active is
\* the number of distinct dates of the member's entries in the period,
\* total_matsuni the sum of their matsuni, avg_matsuni the quotient of the
\* two.
C17_PerMemberRecords ==
    Returns =>
        LET rows == OfMembers(InPeriod(ledger, totIn[2], totIn[3]))
            results == totOut[2].results
        IN  /\ \A u \in NamesIn(rows) :
                  Cardinality({ k \in DOMAIN results :
                                  results[k].username = u }) = 1
            /\ \A k \in DOMAIN results : results[k].username \in NamesIn(rows)
            /\ \A k \in DOMAIN results :
                  LET mine == RowsOf(rows, results[k].username)
                      days == Cardinality({ mine[i].check : i \in DOMAIN mine })
                  IN  /\ results[k].days_active = days
                      /\ results[k].total_matsuni = SumMatsuni(mine)
                      /\ results[k].avg_matsuni
                             = Fraction(SumMatsuni(mine), days)

\* the place of the first row of a username in a list of rows, 0 for none
FirstRow(rows, username) ==
    IF username \in NamesIn(rows)
    THEN CHOOSE i \in DOMAIN rows :
             /\ rows[i].username = username
             /\ \A j \in 1..(i - 1) : rows[j].username # username
    ELSE 0

\* C18: the ranks of a result are 1..N, each once, N the number of members
\* with an entry in the period; a larger total has a smaller rank, and of
\* two members with the same total the one met first when grouping has the
\* smaller rank.
C18_DenseStableRanks ==
    Returns =>
        LET rows == OfMembers(InPeriod(ledger, totIn[2], totIn[3]))
            results == totOut[2].results
            N == Cardinality(NamesIn(rows))
        IN  /\ Len(results) = N
            /\ { results[k].rank : k \in DOMAIN results } = 1..N
            /\ \A j, k \in DOMAIN results :
                  results[j].total_matsuni > results[k].total_matsuni
                      => results[j].rank < results[k].rank
            /\ \A j, k \in DOMAIN results :
                  ( /\ results[j].total_matsuni = results[k].total_matsuni
                    /\ FirstRow(rows, results[j].username)
                           < FirstRow(rows, results[k].username) )
                      => results[j].rank < results[k].rank

\* C19: a second run of the same entry point for the same period, with the
\* ledger and the roster as they were, ends as the first did, returns the
\* same per-member list and leaves sheet 'Итоги' as the first run left it.
C19_Idempotent ==
    totFirst # <<>> =>
        /\ totOut[1] = totFirst[1][1]
        /\ totOut[2] = totFirst[1][2]
        /\ totals = totFirst[2]

\* a second run that returned a list of two members, with a sheet that
\* holds a row of another period and one row for each member of this one
C19_Witness ==
    /\ totFirst # <<>>
    /\ totOut[1] = "ok"
    /\ Len(totOut[2].results) = 2
    /\ \E k \in DOMAIN totals :
          Len(totals[k]) = 6 /\ totals[k][1] # << totIn[2], totIn[3] >>
    /\ Len(SelectSeq(totals, LAMBDA row :
              Len(row) = 6 /\ row[1] = << totIn[2], totIn[3] >>)) = 2

\* C20: over a ledger without an entry, or a period without an entry, the
\* call returns, whatever sheet 'Итоги' holds, a report with total_members
\* 0, total_matsuni 0 and an empty per-member list.
C20_EmptyReport ==
    ( /\ ValidPeriod
      /\ \/ ledger = << >>
         \/ InPeriod(ledger, totIn[2], totIn[3]) = << >> ) =>
        /\ totOut[1] = "ok"
        /\ totOut[2].total_members = 0
        /\ totOut[2].total_matsuni = 0
        /\ totOut[2].results = << >>

\* C21: a call of calculate_totals or calculate_period_totals changes no
\* stored sheet: the ledger, the roster, the exclusions, the posts and the
\* stored totals are after the call what they were before it.
C21_NoMutation ==
    [][UNCHANGED <<ledger, members_ws, exclusions, posts, totals>>]_vars

\* C22: a call of calculate_totals with a start_date or an end_date that is
\* not a valid date does not return a report and leaves sheet 'Итоги' as it
\* was.
C22_InvalidDateRejected ==
    [][ ( /\ totIn' # <<>>
          /\ ~ (validate_date(totIn'[2]) /\ validate_date(totIn'[3])) )
        => ( totOut'[1] # "ok" /\ totals' = totals ) ]_vars

\* the call with the rows of the other usernames taken out of the ledger,
\* on the sheet 'Итоги' the call left
WithoutStrangers ==
    IF totIn[1] = "calculate_period_totals"
    THEN calculate_period_totals(OfMembers(ledger), totals, emptyRead,
                                 totIn[2], totIn[3])
    ELSE calculate_totals(OfMembers(ledger), totals, emptyRead,
                          totIn[2], totIn[3])

\* C24: a ledger entry of a username that is not in the roster raises no
\* error and has no record and no rank; the report (per-member list,
\* total_members, total_matsuni) and the rows written to sheet 'Итоги' are
\* those of the ledger without the entry.
C24_StrangerSkipped ==
    totIn # <<>> =>
        \A without \in { WithoutStrangers } :
            /\ totOut[1] = without[1]
            /\ totOut[1] = "ok" =>
                  /\ totOut[2] = without[2]
                  /\ \A k \in DOMAIN totOut[2].results :
                        totOut[2].results[k].username # Stranger
                  /\ totOut[2].total_matsuni
                         = SumMatsuni(OfMembers(totOut[3]))
            /\ totals = without[4]

\* a call that returned a report with a member in it, for a period in which
\* a username outside the roster has an entry
C24_Witness ==
    /\ Returns
    /\ totOut[2].results # << >>
    /\ \E i \in DOMAIN totOut[3] : totOut[3][i].username = Stranger

(***************************************************************************)
(* Properties of the roster.                                               *)
(***************************************************************************)
\* the whole text is one or more characters of the class [A-Za-z0-9_.]
MatchesPattern(username) ==
    /\ username # << >>
    /\ \A k \in DOMAIN username : username[k] \in {"b", "B"}

\* C23: add_member refuses a username that does not match [A-Za-z0-9_.]+
\* and a join date that is no date, and leaves the roster as it was: the
\* rows add_member has written all hold a username that matches and a
\* valid date.
C23_RosterValid ==
    \A i \in DOMAIN members_ws :
        /\ MatchesPattern(members_ws[i].username)
        /\ validate_date(members_ws[i].join_date)

\* C28: no two rows of the roster hold the same username, compared without
\* regard to case.
C28_UniqueUsernames ==
    \A i, j \in DOMAIN members_ws :
        i < j => lower(members_ws[i].username) # lower(members_ws[j].username)

(***************************************************************************)
(* Properties of the batch of images.                                      *)
(***************************************************************************)
\* the seconds after the submission at which the loop turns to future i
RECURSIVE WaitStart(_, _)
WaitStart(images, i) ==
    IF i = 1
    THEN 0
    ELSE LET before == WaitStart(images, i - 1)
         IN  IF images[i - 1].finish <= before + timeout
             THEN Max(before, images[i - 1].finish)
             ELSE before + timeout

\* unit i has not ended when the wait for it is over
TimedOut(images, i) == images[i].finish > WaitStart(images, i) + timeout

\* unit i failed or timed out
Failed(images, i) == TimedOut(images, i) \/ images[i].failure = "raise"

\* C25: every unit that fails or times out adds one entry to the error list
\* and the batch goes on: the likes and the comments of every unit that
\* completed are in the result.
C25_FailureIsolated ==
    batchIn # <<>> =>
        LET images == batchIn[1]
        IN  /\ Len(batchOut.errors)
                   = Cardinality({ i \in DOMAIN images : Failed(images, i) })
            /\ \A i \in DOMAIN images :
                  ~ Failed(images, i) =>
                      /\ ImageLikes(images[i]) \subseteq batchOut.likes
                      /\ ImageComments(images[i]) \subseteq batchOut.comments

\* a unit that failed or timed out, followed by a unit that completed and
\* found a member
C25_Witness ==
    /\ batchIn # <<>>
    /\ \E i, j \in DOMAIN batchIn[1] :
          /\ i < j
          /\ Failed(batchIn[1], i)
          /\ ~ Failed(batchIn[1], j)
          /\ batchIn[1][j].matched # {}
    /\ batchOut.errors # << >>
    /\ batchOut.likes \cup batchOut.comments # {}

\* the orders a list of n images can be given in
Orders(n) == { p \in [1..n -> 1..n] : \A i, j \in 1..n : p[i] = p[j] => i = j }

\* C26: the likes and the comments of a batch are those of the same images
\* given in any other order.
C26_OrderIndependent ==
    batchIn # <<>> =>
        LET images == batchIn[1]
        IN  \A p \in Orders(Len(images)) :
                \A other \in { batch_process_images(
                                   [i \in DOMAIN images |-> images[p[i]]]) } :
                    /\ other.likes = batchOut.likes
                    /\ other.comments = batchOut.comments

\* C27: when the text extraction of an image of the batch fails, the error
\* list of the result is not empty.
C27_FailureSurfaced ==
    ( /\ batchIn # <<>>
      /\ \E i \in DOMAIN batchIn[1] : batchIn[1][i].failure = "text" )
        => batchOut.errors # << >>

(***************************************************************************)
(* Properties of the post ids.                                             *)
(***************************************************************************)
\* C29: no two saved posts have the same id, whenever they were confirmed.
C29_UniquePostIds ==
    \A i, j \in DOMAIN posts : i < j => posts[i].id # posts[j].id

(***************************************************************************)
(* Properties of the daily quota over several posts.                       *)
(***************************************************************************)
\* the saved rows of a member for the posts of a date
RowsOfDate(led, username, date) ==
    SelectSeq(led, LAMBDA row :
        row.username = username /\ row.post_id.date = date)

RECURSIVE SumRawPoints(_)
SumRawPoints(rows) ==
    IF rows = << >> THEN 0
    ELSE RawPoints(Head(rows).has_like, Head(rows).has_comment)
         + SumRawPoints(Tail(rows))

\* C30: with the posts of a date scored and saved one after another, the
\* points a member holds for the date are min(max_per_day, sum of the raw
\* points of the member's activities on those posts), in whatever order the
\* posts were processed.
C30_DayTotalIsCappedSum ==
    \A date \in Days, username \in Users :
        LET rows == RowsOfDate(ledger, username, date)
        IN  SumMatsuni(rows) = Min(max_per_day, SumRawPoints(rows))

(***************************************************************************)
(* Properties of the conversations of the bot.                             *)
(***************************************************************************)
\* the step takes the conversation of an operator into a state
Entered(op, state) == conv[op] # state /\ conv'[op] = state

\* the step is the save of the results an operator holds in POST_CONFIRM
SavesConfirmed(op) ==
    /\ conv[op] = "POST_CONFIRM"
    /\ post_results[op] # <<>>
    /\ ledger' = ledger \o ActivityRows(post_results[op][1].post_data,
                                        post_results[op][1].results, today)
    /\ posts' = Append(posts, PostRow(post_results[op][1].post_data))
    /\ post_results'[op] = <<>>
    /\ conv'[op] = "END"

new_post_states ==
    {"POST_NAME", "POST_DATE", "POST_LIKES", "POST_COMMENTS", "POST_CONFIRM"}

\* C32: the state of a conversation is END or a state the conversation
\* registers a handler for, so that no conversation is left with the /cancel
\* fallback as the only input it accepts.
C32_StateHasHandler ==
    \A op \in Operators : conv[op] \in {"END"} \cup new_post_states

\* the operators whose ids the setting ADMIN_IDS lists
ADMIN_IDS == {"op1"}

\* C33: an operator whose id is not in ADMIN_IDS never causes a change of the
\* stored state: every save of a post is the step of an administrator.
C33_OnlyAdminsSave ==
    [][ \A op \in Operators : SavesConfirmed(op) => op \in ADMIN_IDS ]_vars

\* a conversation of the user is in progress
InDialog == \E c \in DOMAIN dialogs : dialogs[c] # "END"

\* C34: /cancel sent while a conversation is in progress ends a conversation
\* that was in progress, removes every temporary key of the session and
\* leaves the roster, the exclusions, the ledger and the totals as they were.
C34_CancelEndsAndCleans ==
    [][ (update' = CancelCmd /\ InDialog) =>
          /\ \E c \in DOMAIN dialogs : dialogs[c] # "END" /\ dialogs'[c] = "END"
          /\ user_data' = NoKeys
          /\ UNCHANGED <<members_ws, exclusions, ledger, totals>> ]_vars

(***************************************************************************)
(* Properties of the cached reads.                                         *)
(***************************************************************************)
\* C35: whatever writes were made through the store, the next get_members
\* returns the rows sheet 'Участники' holds now and the next get_exclusions
\* the rows sheet 'Исключения' holds now: no entry of a cache is older than
\* the last write.
C35_CachedReadsAreFresh ==
    /\ \A key \in MemberKeys :
          get_members(memCache, members_ws, key)
              = ReadMembers(members_ws, ActiveOnly(key))
    /\ \A n \in PostNames :
          get_exclusions(exclCache, exclusions, n) = ReadExclusions(exclusions, n)

\* reads answered from the caches after writes: get_members() holds a
\* member added earlier, another member was paused since, and the cached
\* exclusions of the post hold a row
C35_Witness ==
    /\ memCache[<< >>] # NoEntry
    /\ Len(memCache[<< >>][1]) = 1
    /\ Len(members_ws) = 2
    /\ exclCache["vibro"] # NoEntry
    /\ exclCache["vibro"][1] # {}

(***************************************************************************)
(* Properties of the stored totals.                                        *)
(***************************************************************************)
\* the rows of a sheet 'Итоги' that are of another period
OtherPeriods(sheet, period_id) ==
    SelectSeq(sheet, LAMBDA row : Len(row) = 6 /\ row[1] # period_id)

\* C36: a call of calculate_totals for a period leaves the rows of every
\* other period in sheet 'Итоги', the header row, the ledger and the roster
\* as they were before the call.
C36_OtherPeriodsKept ==
    [][ totIn' # <<>> =>
          /\ OtherPeriods(totals', << totIn'[2], totIn'[3] >>)
                = OtherPeriods(totals, << totIn'[2], totIn'[3] >>)
          /\ totals # << >> => (totals' # << >> /\ totals'[1] = totals[1])
          /\ ledger' = ledger
          /\ members_ws' = members_ws ]_vars


\* the photo of the step: its recognized text, the roster of the session
PhotoText == imageIn[1]
PhotoMembers == post_session["op1"][1].members_to_check

\* C37: for every roster member m, also one whose username holds the digits
\* 0 or 1 or the pairs 'vv' or 'rn', a recognized text that holds the handle
\* "@m" and goes through the text normalisation and then the matcher, as in
\* _process_single_image, gives m with confidence 1.0.
C37_HandleSurvivesCleaning ==
    imageIn # <<>> =>
        \A n \in DOMAIN PhotoMembers, i \in DOMAIN PhotoText :
            HandleAt(PhotoText, i, PhotoMembers[n])
            => \E k \in DOMAIN imageOut.found_usernames :
                  imageOut.found_usernames[k]
                      = << PhotoMembers[n], Fraction(1, 1) >>

\* the same for the texts the corrections of _clean_text leave as they are
C37_HandleFoundWhenNothingCorrected ==
    (imageIn # <<>> /\ _clean_text(PhotoText) = JoinSplit(PhotoText)) =>
        \A n \in DOMAIN PhotoMembers, i \in DOMAIN PhotoText :
            HandleAt(PhotoText, i, PhotoMembers[n])
            => \E k \in DOMAIN imageOut.found_usernames :
                  imageOut.found_usernames[k]
                      = << PhotoMembers[n], Fraction(1, 1) >>


\* the recognized text holds a marker word of comments
HasMarker(recognized) == \E k \in DOMAIN recognized : recognized[k] = Otvetil

\* the usernames the matcher gave for the photo
MatchedNames(result) ==
    { result.found_usernames[k][1] : k \in DOMAIN result.found_usernames }

\* C38: a processed image gives its matched usernames to exactly one
\* category, comments when its text holds a marker word of comments and
\* likes otherwise; so a photo with a marker in the likes step adds nothing to
\* found_likes and a photo without a marker in the comments step adds nothing
\* to found_comments.
C38_OneCategoryPerImage ==
    [][ \A op \in Operators :
          (imageIn = <<>> /\ imageIn' # <<>>) =>
             LET recognized == imageIn'[1]
                 result == imageOut'
                 before == post_session[op][1]
                 after == post_session'[op][1]
             IN  /\ HasMarker(recognized) =>
                       /\ SetOf(result.comments) = MatchedNames(result)
                       /\ result.likes = << >>
                       /\ after.found_likes = before.found_likes
                 /\ ~HasMarker(recognized) =>
                       /\ SetOf(result.likes) = MatchedNames(result)
                       /\ result.comments = << >>
                       /\ after.found_comments = before.found_comments
                 /\ conv[op] = "POST_LIKES" =>
                       /\ after.found_likes
                              = before.found_likes \cup SetOf(result.likes)
                       /\ after.found_comments = before.found_comments
                 /\ conv[op] = "POST_COMMENTS" =>
                       /\ after.found_comments
                              = before.found_comments
                                    \cup SetOf(result.comments)
                       /\ after.found_likes = before.found_likes
      ]_vars

\* a photo of the likes step whose text holds a marker and the handle of a
\* member: the member is in the comments of the result and found_likes is
\* still empty
C38_Witness ==
    /\ imageIn # <<>>
    /\ conv["op1"] = "POST_LIKES"
    /\ HasMarker(PhotoText)
    /\ \E i \in DOMAIN PhotoText : HandleAt(PhotoText, i, PhotoMembers[1])
    /\ PhotoMembers[1] \in SetOf(imageOut.comments)
    /\ imageOut.likes = << >>
    /\ post_session["op1"][1].found_likes = {}

====
